---------------------------- MODULE Spec2Model ----------------------------
(***************************************************************************)
(* A model of storage-rs: the version counters (crates/store/version.rs),  *)
(* the container header (header.rs), the metadata record (meta.rs) and the *)
(* backup container, its compressed form and the store scan (backup.rs).   *)
(*                                                                         *)
(* u32 values are kept at their full width.  TLC's integers end at         *)
(* 2^31 - 1, so a u32 is a pair of 16-bit limbs [hi, lo] with value        *)
(* hi * 65536 + lo; an i32 operand is a plain integer.                     *)
(***************************************************************************)
EXTENDS Integers, Sequences, FiniteSets, TLC

VARIABLES
    wv,          \* a wrapping::FileVersion
    sv,          \* a saturating::FileVersion
    ops,         \* how many counter operations were made on wv and sv
    fs,          \* the source files: path -> file
    backup,      \* the BackupFile the caller holds, if any
    backup_copy, \* a clone of a BackupFile the caller has kept, if any
    compressed,  \* the CompressedBackupFile the caller holds, if any
    original,    \* history: the BackupFile that `compressed` was made from
    store,       \* the store directory: file name -> file
    manager,     \* the BackupManager, if one was made
    given,       \* the byte slice handed to the header parsers
    imaged,      \* the header `given` is the byte image of, if bytes_of made it
    parsed,      \* what the last header parser returned
    file_meta,   \* a FileMeta record
    ida,         \* the IdAllocatorInner behind the allocator's mutex
    mutex,       \* the allocator's mutex: [holder, poisoned]
    threads,     \* the threads that use the allocator: thread -> [pc, id]
    held,        \* the IDs alloc has returned and free has not yet taken back
    ida_min,     \* history: the `min` the allocator was made with
    issued,      \* history: the IDs alloc has returned so far
    path_in,     \* the path PathExt::clean is applied to
    cleaned,     \* what clean returned for it, if it was called
    nw,          \* the NotifyWatcher: [is_watching, watched_files]
    registered,  \* the paths that are registered with the inner watcher
    last         \* the last call: [op, result, input]; result is "ok", "err"
                 \* or "panic", input tells the call's input where the claims
                 \* need it.  A write by another process to a source file or
                 \* to the store directory is recorded as a call of its own,
                 \* so that what a call returned is read against the files it
                 \* found.

headerVars == <<given, imaged, parsed>>
idVars == <<ida, mutex, threads, held, ida_min, issued>>
\* the variables of the units that are checked on their own
pathVars == <<path_in, cleaned>>
watchVars == <<nw, registered>>
unitVars == <<headerVars, file_meta, idVars, pathVars, watchVars>>

vars == <<wv, sv, ops, fs, backup, backup_copy, compressed, original, store,
          manager, unitVars, last>>

---------------------------------------------------------------------------
(* u32 arithmetic on 16-bit limbs *)

LIMB == 2^16

U32(h, l) == [hi |-> h, lo |-> l]

\* a natural number below 2^31 as a u32
u32_from(n) == U32(n \div LIMB, n % LIMB)

U32_ZERO == U32(0, 0)
U32_ONE == U32(0, 1)
U32_MAX == U32(LIMB - 1, LIMB - 1)

u32_lt(a, b) == a.hi < b.hi \/ (a.hi = b.hi /\ a.lo < b.lo)
u32_le(a, b) == a = b \/ u32_lt(a, b)

\* rhs as u32: the two's complement image of an i32
i32_as_u32(r) ==
    IF r >= 0 THEN u32_from(r)
    ELSE LET x == (r + 2147483647) + 1      \* r + 2^31, in 0 .. 2^31 - 1
         IN  U32(32768 + (x \div LIMB), x % LIMB)

\* u32::wrapping_add
wrapping_add(a, b) ==
    LET s == a.lo + b.lo
    IN  U32((a.hi + b.hi + (s \div LIMB)) % LIMB, s % LIMB)

\* an addition that wraps where saturating_add clamps
saturating_add_wrapped(a, b) == wrapping_add(a, b)

\* u32::saturating_add
saturating_add(a, b) ==
    LET s == a.lo + b.lo
        h == a.hi + b.hi + (s \div LIMB)
    IN  IF h >= LIMB THEN U32_MAX ELSE U32(h, s % LIMB)

\* u32::saturating_sub
saturating_sub(a, b) ==
    IF u32_le(a, b) THEN U32_ZERO
    ELSE LET borrow == IF a.lo < b.lo THEN 1 ELSE 0
         IN  U32(a.hi - b.hi - borrow, (a.lo + LIMB - b.lo) % LIMB)

\* u32::wrapping_add_signed
wrapping_add_signed(a, r) == wrapping_add(a, i32_as_u32(r))

I32_MIN == -2147483647 - 1
I32_MAX == 2147483647

\* the magnitude of a negative i32 as a u32 (i32::unsigned_abs)
unsigned_abs(r) ==
    IF r = I32_MIN THEN U32(2^15, 0) ELSE u32_from(-r)

\* u32::saturating_add_signed
saturating_add_signed(a, r) ==
    IF r >= 0 THEN saturating_add(a, u32_from(r))
    ELSE saturating_sub(a, unsigned_abs(r))

\* `-rhs` on an i32.  -i32::MIN overflows: the build panics when overflow
\* checks are on (`checked`, the default of a debug build) and wraps to
\* i32::MIN when they are off.
neg_i32(rhs, checked) ==
    IF rhs # I32_MIN THEN [panic |-> FALSE, val |-> -rhs]
    ELSE IF checked THEN [panic |-> TRUE, val |-> rhs]
    ELSE [panic |-> FALSE, val |-> I32_MIN]

---------------------------------------------------------------------------
(* FileVersion: the counter operations of version.rs.  An operation that   *)
(* can panic returns [panic, v]: v is the counter after the call.          *)

INVALID == U32_ZERO

FileVersion_new == U32_ONE

is_valid(v) == v # U32_ZERO

Returned(v) == [panic |-> FALSE, v |-> v]
Panicked(v) == [panic |-> TRUE, v |-> v]

\* AddAssign<u32> as it would be without the step from 0 to 1
wrapping_add_assign_u32_raw(v, rhs) == wrapping_add(v, rhs)

\* wrapping: impl AddAssign<u32>
wrapping_add_assign_u32(v, rhs) ==
    LET wrapped == wrapping_add(v, rhs)
    IN  IF wrapped = U32_ZERO THEN U32_ONE ELSE wrapped

\* wrapping: impl AddAssign<i32>
wrapping_add_assign_i32(v, rhs) ==
    IF ~is_valid(v) THEN v
    ELSE LET value == wrapping_add_signed(v, rhs)
         IN  IF value = U32_ZERO THEN U32_ONE ELSE value

\* wrapping::FileVersion::increment.  The literal in `*self += 1` has no
\* suffix and both AddAssign<u32> and AddAssign<i32> apply, so the integer
\* fallback makes it an i32.
wrapping_increment(v) ==
    IF ~is_valid(v) THEN Panicked(v)
    ELSE Returned(wrapping_add_assign_i32(v, 1))

\* wrapping::FileVersion::increment_n
wrapping_increment_n_unguarded(v, n) == Returned(wrapping_add_assign_u32(v, n))
wrapping_increment_n(v, n) ==
    IF ~is_valid(v) THEN Panicked(v)
    ELSE Returned(wrapping_add_assign_u32(v, n))

\* saturating: impl AddAssign<u32>
saturating_add_assign_u32(v, rhs) ==
    IF ~is_valid(v) THEN v
    ELSE LET value == saturating_add(v, rhs)
         IN  IF value = U32_ZERO THEN U32_ONE ELSE value

\* saturating::FileVersion::increment
saturating_increment(v) ==
    IF ~is_valid(v) THEN Panicked(v)
    ELSE Returned(saturating_add_assign_u32(v, U32_ONE))

\* saturating::FileVersion::increment_n
saturating_increment_n(v, n) ==
    IF ~is_valid(v) THEN Panicked(v)
    ELSE Returned(saturating_add_assign_u32(v, n))

(* The operators of the counters.  `a + b` and `a += b` compute the same  *)
(* value in every pair of impls below, Add building it with               *)
(* new_with_version (whose assert cannot fire on a value coerced away     *)
(* from 0) and AddAssign storing it; one definition stands for the pair.  *)

\* 0 is never stored: `if value == 0 { 1 } else { value }`
nonzero(value) == IF value = U32_ZERO THEN U32_ONE ELSE value

\* wrapping: impl Add / AddAssign (rhs: Self)
wrapping_add_assign_Self(v, rhs) == wrapping_add_assign_u32(v, rhs)

\* SubAssign (rhs: Self) as it would be without the step from 0 to 1
wrapping_sub_assign_Self_raw(v, rhs) == saturating_sub(v, rhs)

\* wrapping: impl Sub / SubAssign (rhs: Self)
wrapping_sub_assign_Self(v, rhs) == nonzero(saturating_sub(v, rhs))

\* wrapping: impl Sub<u32> / SubAssign<u32>
wrapping_sub_assign_u32(v, rhs) == nonzero(saturating_sub(v, rhs))

\* wrapping: impl Sub<i32> / SubAssign<i32>: [panic, v]
wrapping_sub_assign_i32(v, rhs, checked) ==
    IF ~is_valid(v) THEN Returned(v)
    ELSE IF neg_i32(rhs, checked).panic THEN Panicked(v)
    ELSE Returned(nonzero(wrapping_add_signed(v, neg_i32(rhs, checked).val)))

\* saturating: impl Add / AddAssign (rhs: Self)
saturating_add_assign_Self(v, rhs) ==
    IF ~is_valid(v) \/ ~is_valid(rhs) THEN v
    ELSE nonzero(saturating_add(v, rhs))

\* saturating: impl Add<i32> / AddAssign<i32>
saturating_add_assign_i32(v, rhs) ==
    IF ~is_valid(v) THEN v
    ELSE nonzero(saturating_add_signed(v, rhs))

\* saturating: impl Sub / SubAssign (rhs: Self)
saturating_sub_assign_Self(v, rhs) ==
    IF ~is_valid(v) \/ ~is_valid(rhs) THEN v
    ELSE nonzero(saturating_sub(v, rhs))

\* SubAssign<u32> as it would be if it stored what saturating_sub gives
saturating_sub_assign_u32_raw(v, rhs) == saturating_sub(v, rhs)

\* saturating: impl Sub<u32> / SubAssign<u32>
saturating_sub_assign_u32(v, rhs) ==
    IF ~is_valid(v) THEN v
    ELSE nonzero(saturating_sub(v, rhs))

\* saturating: impl Sub<i32> / SubAssign<i32>: [panic, v]
saturating_sub_assign_i32(v, rhs, checked) ==
    IF ~is_valid(v) THEN Returned(v)
    ELSE IF neg_i32(rhs, checked).panic THEN Panicked(v)
    ELSE Returned(nonzero(saturating_add_signed(v, neg_i32(rhs, checked).val)))

---------------------------------------------------------------------------
(* Results, options and byte strings *)

Ok(x) == [ok |-> TRUE, val |-> x]
Err == [ok |-> FALSE]
\* a call that did not return: it panicked
Panic == [ok |-> FALSE, panic |-> TRUE]

\* Option<Timestamp>: None, or the seconds of Some(Timestamp)
None == -1

\* the model's strings are ASCII or hold the byte 0xFF, which no UTF-8
\* string holds
is_utf8(s) == \A i \in 1..Len(s) : s[i] < 128

---------------------------------------------------------------------------
(* rmp_serde: the MessagePack image of FileMeta.  A struct is an array of  *)
(* its fields, a newtype struct is its field, an unsigned integer takes    *)
(* the shortest form that holds it, None is nil, a unit variant is its     *)
(* name.                                                                   *)

NIL == 192
FIXARRAY == 144
FIXSTR == 160

\* an unsigned integer below 2^31
write_uint(n) ==
    IF n < 128 THEN <<n>>
    ELSE IF n < 256 THEN <<204, n>>
    ELSE IF n < LIMB THEN <<205, n \div 256, n % 256>>
    ELSE <<206, n \div (256 * LIMB), (n \div LIMB) % 256,
                (n \div 256) % 256, n % 256>>

\* a u32 given by its limbs
write_u32(v) ==
    IF v.hi = 0 THEN write_uint(v.lo)
    ELSE <<206, v.hi \div 256, v.hi % 256, v.lo \div 256, v.lo % 256>>

\* a str of fewer than 32 bytes
write_str(s) == <<FIXSTR + Len(s)>> \o s

write_option(o) == IF o = None THEN <<NIL>> ELSE write_uint(o)

\* FileKind's variant names
VariantName(k) ==
    CASE k = "File" -> <<70, 105, 108, 101>>
      [] k = "Dir" -> <<68, 105, 114>>
      [] k = "Symlink" -> <<83, 121, 109, 108, 105, 110, 107>>
      [] k = "Unknown" -> <<85, 110, 107, 110, 111, 119, 110>>

FileKinds == {"File", "Dir", "Symlink", "Unknown"}

\* derive(Serialize) for FsMetadata
serialize_FsMetadata(m) ==
    <<FIXARRAY + 5>> \o write_option(m.created) \o write_option(m.modified)
        \o write_option(m.accessed) \o write_uint(m.size)
        \o write_str(VariantName(m.file_type))

\* rmp_serde::to_vec(&FileMeta); a PathBuf that is not UTF-8 does not
\* serialize
to_vec(meta) ==
    IF ~is_utf8(meta.path) THEN Err
    ELSE Ok(<<FIXARRAY + 4>> \o write_u32(meta.version)
            \o write_uint(meta.backup_created) \o write_str(meta.path)
            \o serialize_FsMetadata(meta.fs_meta))

(* Reading: a parser returns [ok, val, next], next the index of the first  *)
(* byte it has not consumed.                                               *)

Parsed(v, n) == [ok |-> TRUE, val |-> v, next |-> n]
NotParsed == [ok |-> FALSE]

Has(b, i, n) == i + n - 1 <= Len(b)

\* an unsigned integer as limbs, from any of the forms up to 32 bits
read_u32(b, i) ==
    IF ~Has(b, i, 1) THEN NotParsed
    ELSE IF b[i] < 128 THEN Parsed(U32(0, b[i]), i + 1)
    ELSE IF b[i] = 204 /\ Has(b, i, 2) THEN Parsed(U32(0, b[i + 1]), i + 2)
    ELSE IF b[i] = 205 /\ Has(b, i, 3)
        THEN Parsed(U32(0, b[i + 1] * 256 + b[i + 2]), i + 3)
    ELSE IF b[i] = 206 /\ Has(b, i, 5)
        THEN Parsed(U32(b[i + 1] * 256 + b[i + 2], b[i + 3] * 256 + b[i + 4]),
                    i + 5)
    ELSE NotParsed

\* a u64 (the model's are below 2^31)
read_uint(b, i) ==
    LET r == read_u32(b, i)
    IN  IF r.ok THEN Parsed(r.val.hi * LIMB + r.val.lo, r.next) ELSE NotParsed

read_option(b, i) ==
    IF Has(b, i, 1) /\ b[i] = NIL THEN Parsed(None, i + 1) ELSE read_uint(b, i)

read_str(b, i) ==
    IF ~Has(b, i, 1) \/ b[i] < FIXSTR \/ b[i] >= FIXSTR + 32 THEN NotParsed
    ELSE LET n == b[i] - FIXSTR
         IN  IF Has(b, i + 1, n) /\ is_utf8(SubSeq(b, i + 1, i + n))
             THEN Parsed(SubSeq(b, i + 1, i + n), i + 1 + n)
             ELSE NotParsed

read_FileKind(b, i) ==
    LET s == read_str(b, i)
    IN  IF s.ok /\ \E k \in FileKinds : VariantName(k) = s.val
        THEN Parsed(CHOOSE k \in FileKinds : VariantName(k) = s.val, s.next)
        ELSE NotParsed

\* derive(Deserialize) for FsMetadata
deserialize_FsMetadata(b, i) ==
    IF ~Has(b, i, 1) \/ b[i] # FIXARRAY + 5 THEN NotParsed
    ELSE LET c == read_option(b, i + 1) IN
         IF ~c.ok THEN NotParsed ELSE
         LET m == read_option(b, c.next) IN
         IF ~m.ok THEN NotParsed ELSE
         LET a == read_option(b, m.next) IN
         IF ~a.ok THEN NotParsed ELSE
         LET s == read_uint(b, a.next) IN
         IF ~s.ok THEN NotParsed ELSE
         LET k == read_FileKind(b, s.next) IN
         IF ~k.ok THEN NotParsed ELSE
         Parsed([created |-> c.val, modified |-> m.val, accessed |-> a.val,
                 size |-> s.val, file_type |-> k.val], k.next)

\* rmp_serde::from_slice::<FileMeta>: bytes after the value are not looked at
from_slice(b) ==
    IF ~Has(b, 1, 1) \/ b[1] # FIXARRAY + 4 THEN Err
    ELSE LET v == read_u32(b, 2) IN
         IF ~v.ok THEN Err ELSE
         LET t == read_uint(b, v.next) IN
         IF ~t.ok THEN Err ELSE
         LET p == read_str(b, t.next) IN
         IF ~p.ok THEN Err ELSE
         LET f == deserialize_FsMetadata(b, p.next) IN
         IF ~f.ok THEN Err ELSE
         Ok([version |-> v.val, backup_created |-> t.val, path |-> p.val,
             fs_meta |-> f.val])

---------------------------------------------------------------------------
(* FileHeader: two usize fields, read and written as their native bytes    *)
(* (little-endian, 8 bytes each on the 64-bit targets).                    *)

USIZE_BYTES == 8

size_of_FileHeader == 2 * USIZE_BYTES

RECURSIVE to_ne_bytes(_, _)
to_ne_bytes(n, k) ==
    IF k = 0 THEN <<>> ELSE <<n % 256>> \o to_ne_bytes(n \div 256, k - 1)

RECURSIVE from_ne_bytes(_)
from_ne_bytes(b) ==
    IF b = <<>> THEN 0 ELSE Head(b) + 256 * from_ne_bytes(Tail(b))

FileHeader_new(meta_size, file_size) ==
    [meta_size |-> meta_size, file_size |-> file_size]

\* bytemuck::bytes_of(&header)
bytes_of(header) ==
    to_ne_bytes(header.meta_size, USIZE_BYTES)
        \o to_ne_bytes(header.file_size, USIZE_BYTES)

\* try_pod_read_unaligned as it would be if it read the front of a slice
\* that is longer than a header
try_pod_read_front(bytes) ==
    IF Len(bytes) < size_of_FileHeader THEN Err
    ELSE Ok(FileHeader_new(from_ne_bytes(SubSeq(bytes, 1, USIZE_BYTES)),
                           from_ne_bytes(SubSeq(bytes, USIZE_BYTES + 1,
                                                size_of_FileHeader))))

\* bytemuck::try_pod_read_unaligned::<FileHeader>
try_pod_read_unaligned(bytes) ==
    IF Len(bytes) # size_of_FileHeader THEN Err
    ELSE Ok(FileHeader_new(from_ne_bytes(SubSeq(bytes, 1, USIZE_BYTES)),
                           from_ne_bytes(SubSeq(bytes, USIZE_BYTES + 1,
                                                size_of_FileHeader))))

\* FileHeader::try_from_bytes_exact
try_from_bytes_exact(bytes) == try_pod_read_unaligned(bytes)

\* try_pull_pod as it would be if it wanted a byte past the header
try_pull_pod_past(bytes) ==
    LET position == size_of_FileHeader
    IN  IF Len(bytes) > position
        THEN LET a == try_pod_read_unaligned(SubSeq(bytes, 1, position))
             IN  IF a.ok
                 THEN Ok(<<a.val, SubSeq(bytes, position + 1, Len(bytes))>>)
                 ELSE Err
        ELSE Err

\* try_pull_pod::<FileHeader>: Ok's value is <<header, tail>>
try_pull_pod(bytes) ==
    LET position == size_of_FileHeader
    IN  IF Len(bytes) >= position
        THEN LET a == try_pod_read_unaligned(SubSeq(bytes, 1, position))
             IN  IF a.ok
                 THEN Ok(<<a.val, SubSeq(bytes, position + 1, Len(bytes))>>)
                 ELSE Err
        ELSE Err

\* FileHeader::try_from_bytes
try_from_bytes(bytes) == try_pull_pod(bytes)

---------------------------------------------------------------------------
(* brotli.  The compressor is kept to the framing of its stream: the       *)
(* stream header (the window size), one meta-block that declares its       *)
(* length and carries the data (none for empty data), and the final empty  *)
(* meta-block the writer emits when it is dropped.  Entropy coding is left *)
(* out: the meta-block carries the data as they are.  The decompressor     *)
(* fails on a stream that ends early, as on any other malformed stream.    *)

LGWIN == 22

\* the WBITS code of a window of 18 to 24 bits
WBITS(lgwin) == 2 * (lgwin - 17) + 1

\* ISLAST and ISLASTEMPTY
FINAL_METABLOCK == 3

\* CompressorWriter::new(.., BUFFER_SIZE, 11, 22), write_all, flush, drop
brotli_compress(bytes) ==
    <<WBITS(LGWIN)>>
        \o (IF bytes = <<>> THEN <<>> ELSE <<Len(bytes)>> \o bytes)
        \o <<FINAL_METABLOCK>>

\* Decompressor::new(..).read_to_end
brotli_decompress_lenient(stream) ==
    IF Len(stream) < 1 \/ stream[1] # WBITS(LGWIN) THEN Err
    ELSE IF Len(stream) <= 2 THEN Ok(<<>>)
    ELSE Ok(SubSeq(stream, 3, IF 2 + stream[2] < Len(stream)
                              THEN 2 + stream[2] ELSE Len(stream)))
brotli_decompress(stream) ==
    IF Len(stream) < 2 \/ stream[1] # WBITS(LGWIN) THEN Err
    ELSE IF Len(stream) = 2
        THEN (IF stream[2] = FINAL_METABLOCK THEN Ok(<<>>) ELSE Err)
    ELSE IF stream[2] >= 1 /\ Len(stream) = stream[2] + 3
            /\ stream[Len(stream)] = FINAL_METABLOCK
        THEN Ok(SubSeq(stream, 3, Len(stream) - 1))
    ELSE Err

---------------------------------------------------------------------------
(* Files and std::fs::Metadata *)

NoFile == [exists |-> FALSE]
File(bytes) == [exists |-> TRUE, bytes |-> bytes]

\* std::fs::OpenOptions
OpenOptions(read, write, append, create, truncate) ==
    [read |-> read, write |-> write, append |-> append, create |-> create,
     truncate |-> truncate]

\* xstd::fs::open_write_truncate
open_write_truncate == OpenOptions(FALSE, TRUE, TRUE, FALSE, TRUE)

\* xstd::fs::read_only
read_only == OpenOptions(TRUE, FALSE, FALSE, FALSE, FALSE)

\* xstd::fs::create_write_append
create_write_append == OpenOptions(FALSE, TRUE, TRUE, TRUE, FALSE)

\* xstd::fs::create_write_truncate
create_write_truncate == OpenOptions(FALSE, TRUE, FALSE, TRUE, TRUE)

\* OpenOptions::open succeeds on a file that exists, or creates it
open_ok(options, file) == file.exists \/ (options.write /\ options.create)

\* the file on disk after OpenOptions::open: created empty if it was
\* missing and `create` is set, cut to length 0 if `truncate` is set
opened(options, file) ==
    IF ~file.exists
    THEN IF options.write /\ options.create THEN File(<<>>) ELSE file
    ELSE IF options.write /\ options.truncate THEN File(<<>>) ELSE file

\* the file on disk after write_all(bytes) and flush on a file just opened:
\* at the end of the file if `append` is set, else from position 0 over
\* what is there
write_all(options, file, bytes) ==
    IF options.append THEN File(file.bytes \o bytes)
    ELSE File(bytes \o SubSeq(file.bytes, Len(bytes) + 1, Len(file.bytes)))

\* std::fs::metadata of a regular file: times is <<created, modified,
\* accessed>> as the platform reports them (None where it does not)
Metadata(file, times) ==
    [created |-> times[1], modified |-> times[2], accessed |-> times[3],
     len |-> Len(file.bytes), kind |-> "file"]

\* From<&Metadata> for FileKind
FileKind_from(metadata) ==
    IF metadata.kind = "file" THEN "File"
    ELSE IF metadata.kind = "dir" THEN "Dir"
    ELSE IF metadata.kind = "symlink" THEN "Symlink"
    ELSE "Unknown"

\* FsMetadata::from_metadata
from_metadata(metadata) ==
    [created |-> metadata.created, modified |-> metadata.modified,
     accessed |-> metadata.accessed, size |-> metadata.len,
     file_type |-> FileKind_from(metadata)]

---------------------------------------------------------------------------
(* FileMeta *)

\* FileMeta::new
FileMeta_new(version, created, path, fs_meta) ==
    [version |-> version, backup_created |-> created, path |-> path,
     fs_meta |-> fs_meta]

\* FileMeta::new_from_metadata
new_from_metadata(path, created, metadata, version) ==
    FileMeta_new(version, created, path, from_metadata(metadata))

\* update_from_metadata as it would be if it made the record anew
update_from_metadata_anew(meta, metadata) ==
    FileMeta_new(FileVersion_new, meta.backup_created, meta.path,
                 from_metadata(metadata))

\* FileMeta::update_from_metadata
update_from_metadata(meta, metadata) ==
    [meta EXCEPT !.fs_meta = from_metadata(metadata)]

\* bump_version as it would be if it left the version alone
bump_version_skipped(meta) == [panic |-> ~is_valid(meta.version), meta |-> meta]

\* FileMeta::bump_version: [panic, meta]
bump_version(meta) ==
    LET r == saturating_increment(meta.version)
    IN  [panic |-> r.panic, meta |-> [meta EXCEPT !.version = r.v]]

---------------------------------------------------------------------------
(* BackupFile and CompressedBackupFile.  An operation returns a record     *)
(* with its result ("ok", "err" or "panic") and what it yields.            *)

NoBackup == [some |-> FALSE]
BackupFile(header, meta, file_bytes) ==
    [some |-> TRUE, header |-> header, meta |-> meta,
     file_bytes |-> file_bytes]

NoCompressed == [some |-> FALSE]
CompressedBackupFile_new(bytes) == [some |-> TRUE, bytes |-> bytes]

\* extract_file_info as it would be without the assert_eq! on bytes_read
extract_file_info_unasserted(at_stat, times, at_read) ==
    IF ~at_stat.exists THEN [result |-> "err"]
    ELSE IF ~open_ok(read_only, at_read) THEN [result |-> "err"]
    ELSE [result |-> "ok", raw_meta |-> Metadata(at_stat, times),
          file_bytes |-> at_read.bytes]

\* BackupFile::extract_file_info.  at_stat is the file as std::fs::metadata
\* finds it, at_read the file as the read that follows finds it: a writer
\* of the source file may run in between.
extract_file_info(at_stat, times, at_read) ==
    IF ~at_stat.exists THEN [result |-> "err"]
    ELSE LET raw_metadata == Metadata(at_stat, times)
             file_size == raw_metadata.len
         IN  IF ~open_ok(read_only, at_read) THEN [result |-> "err"]
             ELSE IF Len(at_read.bytes) # file_size THEN [result |-> "panic"]
             ELSE [result |-> "ok", raw_meta |-> raw_metadata,
                   file_bytes |-> at_read.bytes]

\* the source file on disk after extract_file_info: as the other writers
\* left it (at_read), opened with read_only() if std::fs::metadata succeeded
source_after(at_stat, at_read) ==
    IF at_stat.exists THEN opened(read_only, at_read) ELSE at_read

\* BackupFile::create_new
create_new(path, now, at_stat, times, at_read) ==
    LET info == extract_file_info(at_stat, times, at_read)
    IN  IF info.result # "ok" THEN [result |-> info.result]
        ELSE LET meta == new_from_metadata(path, now, info.raw_meta,
                                           FileVersion_new)
                 encoded == to_vec(meta)
             IN  IF ~encoded.ok THEN [result |-> "err"]
                 ELSE [result |-> "ok",
                       backup |-> BackupFile(
                           FileHeader_new(Len(encoded.val),
                                          Len(info.file_bytes)),
                           meta, info.file_bytes)]

\* update_backup as it would be if it kept the header it had: the sizes of
\* the header then describe the container before the update
update_backup_stale_header(self, at_stat, times, at_read) ==
    LET info == extract_file_info(at_stat, times, at_read)
    IN  IF info.result # "ok" THEN [result |-> info.result, backup |-> self]
        ELSE LET updated == update_from_metadata(self.meta, info.raw_meta)
                 bumped == bump_version(updated)
             IN  IF bumped.panic
                 THEN [result |-> "panic",
                       backup |-> [self EXCEPT !.meta = updated]]
                 ELSE [result |-> "ok",
                       backup |-> BackupFile(self.header, bumped.meta,
                                             info.file_bytes)]

\* update_backup as it would be if it bumped the version before it read
\* the file
update_backup_bump_first(self, at_stat, times, at_read) ==
    LET bumped == bump_version(self.meta)
        info == extract_file_info(at_stat, times, at_read)
    IN  IF bumped.panic THEN [result |-> "panic", backup |-> self]
        ELSE IF info.result # "ok"
        THEN [result |-> info.result,
              backup |-> [self EXCEPT !.meta = bumped.meta]]
        ELSE LET updated == update_from_metadata(bumped.meta, info.raw_meta)
             IN  [result |-> "ok",
                  backup |-> BackupFile(
                      FileHeader_new(Len(to_vec(updated).val),
                                     Len(info.file_bytes)),
                      updated, info.file_bytes)]

\* update_backup as it would be if it stamped the record with the time the
\* file was modified
update_backup_restamped(self, at_stat, times, at_read) ==
    LET info == extract_file_info(at_stat, times, at_read)
    IN  IF info.result # "ok" THEN [result |-> info.result, backup |-> self]
        ELSE LET updated == update_from_metadata(self.meta, info.raw_meta)
                 bumped == bump_version(updated)
                 stamped == [bumped.meta EXCEPT
                                 !.backup_created = info.raw_meta.modified]
             IN  IF bumped.panic
                 THEN [result |-> "panic",
                       backup |-> [self EXCEPT !.meta = updated]]
                 ELSE [result |-> "ok",
                       backup |-> BackupFile(
                           FileHeader_new(Len(to_vec(stamped).val),
                                          Len(info.file_bytes)),
                           stamped, info.file_bytes)]

\* BackupFile::update_backup: `backup` is self after the call
update_backup(self, at_stat, times, at_read) ==
    LET info == extract_file_info(at_stat, times, at_read)
    IN  IF info.result # "ok" THEN [result |-> info.result, backup |-> self]
        ELSE LET updated == update_from_metadata(self.meta, info.raw_meta)
                 bumped == bump_version(updated)
                 encoded == to_vec(bumped.meta)
             IN  IF bumped.panic
                 THEN [result |-> "panic",
                       backup |-> [self EXCEPT !.meta = updated]]
                 ELSE IF ~encoded.ok
                 THEN [result |-> "err",
                       backup |-> [self EXCEPT !.meta = bumped.meta]]
                 ELSE [result |-> "ok",
                       backup |-> BackupFile(
                           FileHeader_new(Len(encoded.val),
                                          Len(info.file_bytes)),
                           bumped.meta, info.file_bytes)]

\* the stream as it would be with the metadata laid before the header
stream_bytes_meta_first(header_bytes, meta_bytes, file_bytes) ==
    meta_bytes \o header_bytes \o file_bytes

\* the bytes try_compress collects for the compressor: three
\* extend_from_slice calls on an empty Vec
stream_bytes(header_bytes, meta_bytes, file_bytes) ==
    header_bytes \o meta_bytes \o file_bytes

\* try_compress as it would be if it laid the file bytes before the metadata
try_compress_file_first(self) ==
    LET header_bytes == bytes_of(self.header)
        meta_bytes == to_vec(self.meta)
    IN  IF ~meta_bytes.ok THEN [result |-> "err"]
        ELSE [result |-> "ok",
              compressed |-> CompressedBackupFile_new(brotli_compress(
                  header_bytes \o self.file_bytes \o meta_bytes.val))]

\* BackupFile::try_compress
try_compress(self) ==
    LET header_bytes == bytes_of(self.header)
        meta_bytes == to_vec(self.meta)
    IN  IF Len(header_bytes) # size_of_FileHeader THEN [result |-> "panic"]
        ELSE IF ~meta_bytes.ok THEN [result |-> "err"]
        ELSE IF Len(meta_bytes.val) # self.header.meta_size
            THEN [result |-> "panic"]
        ELSE IF Len(self.file_bytes) # self.header.file_size
            THEN [result |-> "panic"]
        ELSE LET bytes == stream_bytes(header_bytes, meta_bytes.val,
                                       self.file_bytes)
             IN  [result |-> "ok",
                  compressed |-> CompressedBackupFile_new(
                                     brotli_compress(bytes))]

\* CompressedBackupFile::try_decompress
try_decompress(self) ==
    LET decompressed_bytes == brotli_decompress(self.bytes)
    IN  IF ~decompressed_bytes.ok THEN [result |-> "err"]
        ELSE LET pulled == try_from_bytes(decompressed_bytes.val)
             IN  IF ~pulled.ok THEN [result |-> "err"]
                 ELSE LET header == pulled.val[1]
                          rest == pulled.val[2]
                      IN  \* split_at panics past the end of the slice
                          IF header.meta_size > Len(rest)
                          THEN [result |-> "panic"]
                          ELSE LET meta_bytes ==
                                       SubSeq(rest, 1, header.meta_size)
                                   file_bytes ==
                                       SubSeq(rest, header.meta_size + 1,
                                              Len(rest))
                                   meta == from_slice(meta_bytes)
                               IN  IF Len(file_bytes) # header.file_size
                                   THEN [result |-> "panic"]
                                   ELSE IF ~meta.ok THEN [result |-> "err"]
                                   ELSE [result |-> "ok",
                                         backup |-> BackupFile(
                                             header, meta.val, file_bytes)]

\* CompressedBackupFile::write_to_file: the directory after the call
write_to_file(self, dir, name) ==
    IF ~open_ok(create_write_truncate, dir[name]) THEN dir
    ELSE [dir EXCEPT ![name] =
              write_all(create_write_truncate,
                        opened(create_write_truncate, dir[name]), self.bytes)]

\* vec![0; n] panics with "capacity overflow" when n is greater than
\* isize::MAX; n is given by its bytes, as the header holds it
capacity_overflow(size_bytes) == size_bytes[USIZE_BYTES] >= 128

\* extract_header_and_meta as it would be if it wanted the file bytes the
\* header declares to be in the file
extract_header_and_meta_whole(file) ==
    IF ~file.exists THEN Err
    ELSE IF Len(file.bytes) < size_of_FileHeader THEN Err
    ELSE IF capacity_overflow(SubSeq(file.bytes, 1, USIZE_BYTES)) THEN Panic
    ELSE LET header ==
                 try_from_bytes_exact(SubSeq(file.bytes, 1, size_of_FileHeader))
         IN  IF ~header.ok THEN Err
             ELSE IF Len(file.bytes) - size_of_FileHeader
                         < header.val.meta_size + header.val.file_size
             THEN Err
             ELSE LET meta == from_slice(SubSeq(file.bytes,
                                  size_of_FileHeader + 1,
                                  size_of_FileHeader + header.val.meta_size))
                  IN  IF ~meta.ok THEN Err ELSE Ok(<<header.val, meta.val>>)

\* extract_header_and_meta: Ok's value is <<header, meta>>.  meta_buf is
\* allocated with the meta_size the header declares before anything is read
\* into it.
extract_header_and_meta(file) ==
    IF ~file.exists THEN Err
    ELSE IF Len(file.bytes) < size_of_FileHeader THEN Err
    ELSE IF capacity_overflow(SubSeq(file.bytes, 1, USIZE_BYTES)) THEN Panic
    ELSE LET header ==
                 try_from_bytes_exact(SubSeq(file.bytes, 1, size_of_FileHeader))
         IN  IF ~header.ok THEN Err
             ELSE IF Len(file.bytes) - size_of_FileHeader < header.val.meta_size
             THEN Err
             ELSE LET meta == from_slice(SubSeq(file.bytes,
                                  size_of_FileHeader + 1,
                                  size_of_FileHeader + header.val.meta_size))
                  IN  IF ~meta.ok THEN Err ELSE Ok(<<header.val, meta.val>>)

---------------------------------------------------------------------------
(* BackupManager *)

NoManager == [some |-> FALSE]

BackupInfo(header, meta, backup_path) ==
    [header |-> header, meta |-> meta, backup_path |-> backup_path]

\* the entries of the directory
Entries(dir) == {n \in DOMAIN dir : dir[n].exists}

\* the orders in which std::fs::read_dir may yield the entries
ReadDirOrders(dir) ==
    LET n == Cardinality(Entries(dir))
    IN  {o \in [1..n -> Entries(dir)] : \A i, j \in 1..n : o[i] = o[j] => i = j}

\* the body of the loop of collect_backup_info, given what
\* extract_header_and_meta returned for each entry: the loop returns at the
\* first entry that failed, before self.file_info is assigned; otherwise
\* infos holds one BackupInfo per entry, in the order of the entries
collected_infos(extracted, entries) ==
    IF \E i \in DOMAIN entries : ~extracted[i].ok
    THEN extracted[CHOOSE i \in DOMAIN entries :
                       /\ ~extracted[i].ok
                       /\ \A j \in 1..(i - 1) : extracted[j].ok]
    ELSE Ok([i \in DOMAIN entries |->
                BackupInfo(extracted[i].val[1], extracted[i].val[2],
                           entries[i])])

\* std::fs::read_dir(self.store_path()): an error if the directory cannot be
\* listed, else its entries in the order `order`
read_dir(listable, order) == IF listable THEN Ok(order) ELSE Err

\* BackupManager::collect_backup_info: `listing` is what read_dir returned
\* and `dir` the directory as the entries are opened.  Ok's value is the new
\* file_info.
collect_backup_info(dir, listing) ==
    IF ~listing.ok THEN Err
    ELSE collected_infos(
             [i \in DOMAIN listing.val |->
                  extract_header_and_meta(dir[listing.val[i]])],
             listing.val)

\* BackupManager::new after the scan: `?` returns its error, else Ok(this)
manager_with(collected) ==
    IF collected = Panic THEN [result |-> "panic"]
    ELSE IF ~collected.ok THEN [result |-> "err"]
    ELSE [result |-> "ok",
          manager |-> [some |-> TRUE, file_info |-> collected.val]]

\* BackupManager::new as it would be without the scan: file_info stays vec![]
BackupManager_new_unscanned(dir, listing) ==
    [result |-> "ok", manager |-> [some |-> TRUE, file_info |-> <<>>]]

\* BackupManager::new
BackupManager_new(dir, listing) ==
    manager_with(collect_backup_info(dir, listing))

---------------------------------------------------------------------------
(* The inputs of the model *)

\* the longest source file
MaxFileLen == 1
\* how many times a container is updated past the version it started with
MaxBumps == 2
\* how many counter operations a run makes
MaxVersionOps == 3

PATH_A == <<97>>
PATH_INVALID_UTF8 == <<255>>
SourcePaths == {PATH_A, PATH_INVALID_UTF8}

\* the file contents: a text of every length up to MaxFileLen, and another
\* of the greatest length
Text(n, d) == [i \in 1..n |-> 64 + 2 * i + d]
FileContents == {Text(n, 0) : n \in 0..MaxFileLen} \cup {Text(MaxFileLen, 1)}
FileStates == {NoFile} \cup {File(c) : c \in FileContents}

\* <<created, modified, accessed>> as a platform may report them
TimeSamples == {<<None, 100, 100>>, <<300, 300, 300>>}
\* Timestamp::now()
NowSamples == {300}

u32_pred(v) == IF v.lo = 0 THEN U32(v.hi - 1, LIMB - 1) ELSE U32(v.hi, v.lo - 1)

\* the versions a container starts from: a new one, and ones an earlier run
\* has stored
StoredVersions == {INVALID, u32_from(127), u32_pred(U32_MAX)}
BaseVersions == {FileVersion_new} \cup StoredVersions

\* a container as an earlier run has stored it, at version v
StoredBackup(v) ==
    LET meta == FileMeta_new(v, 100, PATH_A,
                    from_metadata(Metadata(File(Text(1, 0)), <<None, 100, 100>>)))
    IN  BackupFile(FileHeader_new(Len(to_vec(meta).val), 1), meta, Text(1, 0))

\* the stream of a container, as try_compress lays it out
StreamOf(b) ==
    brotli_compress(bytes_of(b.header) \o to_vec(b.meta).val \o b.file_bytes)

ForeignStreams == {StreamOf(StoredBackup(v)) : v \in StoredVersions}

\* update_backup is tried while the version is within MaxBumps of where it
\* started, or cannot grow
Bumpable(v) ==
    \/ v = INVALID
    \/ v = U32_MAX
    \/ \E b \in BaseVersions, k \in 0..(MaxBumps - 1) :
           v = wrapping_add(b, u32_from(k))

(* The inputs of try_decompress made from a stream s of try_compress:      *)
(* s itself, a strict prefix of s, and streams whose declared sizes differ *)
(* from the bytes that follow the header.                                  *)
Missized(s) ==
    LET d == brotli_decompress(s).val
        h == try_from_bytes(d).val[1]
        rest == try_from_bytes(d).val[2]
    IN  {brotli_compress(x) : x \in
            {d \o <<0>>,
             SubSeq(d, 1, Len(d) - 1),
             SubSeq(d, 1, size_of_FileHeader),
             bytes_of(FileHeader_new(h.meta_size + 1, h.file_size)) \o rest,
             bytes_of(FileHeader_new(h.meta_size, h.file_size + 1)) \o rest}}

DecompressInputs(s) ==
    {[kind |-> "intact", bytes |-> s]}
        \cup {[kind |-> "prefix", bytes |-> SubSeq(s, 1, k)] : k \in 0..(Len(s) - 1)}
        \cup {[kind |-> "missized", bytes |-> m] : m \in Missized(s)}

---------------------------------------------------------------------------
(* The backup pipeline.  The caller holds one container at a time, as a    *)
(* BackupFile or as a CompressedBackupFile, and may keep one clone.  A     *)
(* panic ends the run.                                                     *)

Called(op, result, input) == [op |-> op, result |-> result, input |-> input]

Running == last.result # "panic"

versionVars == <<wv, sv, ops>>
storeVars == <<store, manager>>

\* another process writes or removes a source file
ExternalWrite(p, f) ==
    /\ Running
    /\ fs[p] # f
    /\ fs' = [fs EXCEPT ![p] = f]
    /\ last' = Called("external_write", "ok", "")
    /\ UNCHANGED <<backup, backup_copy, compressed, original>>
    /\ UNCHANGED <<versionVars, storeVars>>
    /\ UNCHANGED unitVars

\* BackupFile::create_new(p); the source file is at_read when it is read
CreateNew(p, now, times, at_read) ==
    /\ Running
    /\ ~backup.some /\ ~compressed.some
    /\ LET r == create_new(p, now, fs[p], times, at_read)
       IN  /\ backup' = IF r.result = "ok" THEN r.backup ELSE backup
           /\ last' = Called("create_new", r.result, "")
    /\ fs' = [fs EXCEPT ![p] = source_after(fs[p], at_read)]
    /\ original' = NoBackup
    /\ UNCHANGED <<backup_copy, compressed>>
    /\ UNCHANGED <<versionVars, storeVars>>
    /\ UNCHANGED unitVars

\* backup.update_backup()
UpdateBackup(times, at_read) ==
    /\ Running
    /\ backup.some
    /\ Bumpable(backup.meta.version)
    /\ LET p == backup.meta.path
           r == update_backup(backup, fs[p], times, at_read)
       IN  /\ backup' = r.backup
           /\ last' = Called("update_backup", r.result, "")
           /\ fs' = [fs EXCEPT ![p] = source_after(fs[p], at_read)]
    /\ original' = NoBackup
    /\ UNCHANGED <<backup_copy, compressed>>
    /\ UNCHANGED <<versionVars, storeVars>>
    /\ UNCHANGED unitVars

\* backup_copy = backup.clone(), of a container just made
Clone ==
    /\ Running
    /\ backup.some
    /\ last.op = "create_new"
    /\ backup_copy' = backup
    /\ last' = Called("clone", "ok", "")
    /\ UNCHANGED <<fs, backup, compressed, original>>
    /\ UNCHANGED <<versionVars, storeVars>>
    /\ UNCHANGED unitVars

\* the caller drops what it holds
Drop ==
    /\ Running
    /\ backup.some \/ compressed.some
    /\ backup' = NoBackup
    /\ compressed' = NoCompressed
    /\ original' = NoBackup
    /\ last' = Called("drop", "ok", "")
    /\ UNCHANGED <<fs, backup_copy>>
    /\ UNCHANGED <<versionVars, storeVars>>
    /\ UNCHANGED unitVars

\* backup.try_compress(): backup is moved into the call
TryCompress ==
    /\ Running
    /\ backup.some
    /\ LET r == try_compress(backup)
       IN  /\ compressed' = IF r.result = "ok" THEN r.compressed ELSE NoCompressed
           /\ original' = IF r.result = "ok" THEN backup ELSE NoBackup
           /\ last' = Called("try_compress", r.result, "")
    /\ backup' = NoBackup
    /\ UNCHANGED <<fs, backup_copy>>
    /\ UNCHANGED <<versionVars, storeVars>>
    /\ UNCHANGED unitVars

\* CompressedBackupFile::new(bytes) of a stream an earlier run has stored
New(bytes) ==
    /\ Running
    /\ ~backup.some /\ ~compressed.some
    /\ compressed' = CompressedBackupFile_new(bytes)
    /\ original' = NoBackup
    /\ last' = Called("new", "ok", "")
    /\ UNCHANGED <<fs, backup, backup_copy>>
    /\ UNCHANGED <<versionVars, storeVars>>
    /\ UNCHANGED unitVars

\* CompressedBackupFile::new(input.bytes).try_decompress(), input made from
\* the stream the caller holds, which is moved into the call
TryDecompress(input) ==
    /\ Running
    /\ compressed.some
    /\ LET r == try_decompress(CompressedBackupFile_new(input.bytes))
       IN  /\ backup' = IF r.result = "ok" THEN r.backup ELSE NoBackup
           /\ last' = Called("try_decompress", r.result, input.kind)
    /\ compressed' = NoCompressed
    /\ UNCHANGED <<fs, backup_copy, original>>
    /\ UNCHANGED <<versionVars, storeVars>>
    /\ UNCHANGED unitVars

StoreNames == {1, 2}

\* a unit that a specification does not exercise stays as it is here
NoHeader == [some |-> FALSE]
NoParse == [some |-> FALSE]
NoMeta == [some |-> FALSE]
NoAllocator == [some |-> FALSE]
Unlocked == [holder |-> 0, poisoned |-> FALSE]
Threads == {1, 2}
Idle == [pc |-> "idle", id |-> 0]

HeaderAtRest == given = <<>> /\ imaged = NoHeader /\ parsed = NoParse
MetaAtRest == file_meta = NoMeta
AllocatorAtRest ==
    /\ ida = NoAllocator
    /\ mutex = Unlocked
    /\ threads = [t \in Threads |-> Idle]
    /\ held = <<>>
    /\ ida_min = 0
    /\ issued = {}
NoPath == [some |-> FALSE]
PathAtRest == path_in = <<>> /\ cleaned = NoPath
NoWatcher == [some |-> FALSE]
WatcherAtRest == nw = NoWatcher /\ registered = {}
LaterUnitsAtRest == PathAtRest /\ WatcherAtRest
UnitsAtRest ==
    HeaderAtRest /\ MetaAtRest /\ AllocatorAtRest /\ LaterUnitsAtRest

Init ==
    /\ wv = FileVersion_new
    /\ sv = FileVersion_new
    /\ ops = 0
    /\ fs = [p \in SourcePaths |-> File(Text(1, 0))]
    /\ backup = NoBackup
    /\ backup_copy = NoBackup
    /\ compressed = NoCompressed
    /\ original = NoBackup
    /\ store = [n \in StoreNames |-> NoFile]
    /\ manager = NoManager
    /\ UnitsAtRest
    /\ last = Called("init", "ok", "")

Next ==
    \/ \E f \in FileStates : ExternalWrite(PATH_A, f)
    \/ \E p \in SourcePaths, now \in NowSamples, times \in TimeSamples,
          at_read \in FileStates : CreateNew(p, now, times, at_read)
    \/ \E times \in TimeSamples, at_read \in FileStates :
           UpdateBackup(times, at_read)
    \/ Clone
    \/ Drop
    \/ TryCompress
    \/ \E s \in ForeignStreams : New(s)
    \/ /\ compressed.some
       /\ \E input \in DecompressInputs(compressed.bytes) : TryDecompress(input)

Spec == Init /\ [][Next]_vars

---------------------------------------------------------------------------
(* The store directory.  The caller backs up PATH_A and writes the stream  *)
(* under a name of the store; other processes put and remove files.        *)

pipelineVars == <<fs, backup, backup_copy, compressed, original>>

\* a file that holds a container as it is laid out before compression
PlainFile(b) == File(bytes_of(b.header) \o to_vec(b.meta).val \o b.file_bytes)

\* 193 (0xC1) is the one byte MessagePack never uses
NEVER_USED == 193

\* a file whose header declares one byte of metadata, which is no FileMeta
UnparsableFile == File(bytes_of(FileHeader_new(1, 0)) \o <<NEVER_USED>>)

\* a file of the size of a header that declares usize::MAX bytes of metadata
OversizedFile == File([i \in 1..size_of_FileHeader |-> IF i <= USIZE_BYTES THEN 255 ELSE 0])

\* files this program did not write
ForeignFiles ==
    {NoFile, File(<<1, 2, 3>>), PlainFile(StoredBackup(u32_from(127))),
     UnparsableFile, OversizedFile}

\* compressed.write_to_file(store_dir/name)
WriteToFile(name) ==
    /\ Running
    /\ compressed.some
    /\ store' = write_to_file(compressed, store, name)
    /\ last' = Called("write_to_file", "ok", "")
    /\ UNCHANGED <<versionVars, pipelineVars, manager>>
    /\ UNCHANGED unitVars

\* another process puts, replaces or removes a file of the store directory
ExternalStoreWrite(name, f) ==
    /\ Running
    /\ store[name] # f
    /\ store' = [store EXCEPT ![name] = f]
    /\ last' = Called("external_store_write", "ok", "")
    /\ UNCHANGED <<versionVars, pipelineVars, manager>>
    /\ UNCHANGED unitVars

\* the directory once other processes have removed the files `gone`
without(dir, gone) == [n \in DOMAIN dir |-> IF n \in gone THEN NoFile ELSE dir[n]]

\* manager = BackupManager::new(config)?.  read_dir lists the directory, or
\* fails to (`listable`), and yields `entries`; other processes remove the
\* files `gone` after the listing and before they are opened.
NewBackupManager(entries, listable, gone) ==
    /\ Running
    /\ ~listable => gone = {}
    /\ \E r \in {BackupManager_new(without(store, gone),
                                   read_dir(listable, entries))} :
           /\ manager' = IF r.result = "ok" THEN r.manager ELSE manager
           /\ last' = Called("BackupManager::new", r.result,
                             IF ~listable THEN "unlisted"
                             ELSE IF gone # {} THEN "unopened" ELSE "")
    /\ store' = without(store, gone)
    /\ UNCHANGED <<versionVars, pipelineVars>>
    /\ UNCHANGED unitVars

StoreNext ==
    \/ \E f \in FileStates : ExternalWrite(PATH_A, f)
    \/ \E times \in TimeSamples : CreateNew(PATH_A, 300, times, fs[PATH_A])
    \/ Drop
    \/ TryCompress
    \/ \E n \in StoreNames : WriteToFile(n)
    \/ \E n \in StoreNames, f \in ForeignFiles : ExternalStoreWrite(n, f)
    \/ \E entries \in ReadDirOrders(store), listable \in BOOLEAN,
          gone \in SUBSET Entries(store) :
           NewBackupManager(entries, listable, gone)

SpecStore == Init /\ [][StoreNext]_vars

---------------------------------------------------------------------------
(* A backup attempt against the store: the caller makes or updates the     *)
(* container of PATH_A, compresses it and writes it under a name of the    *)
(* store, or reads a stream back.  Other processes write the source file   *)
(* between the calls, not during them.                                     *)

\* the name the store keeps the container of PATH_A under
BackupName == CHOOSE n \in StoreNames : \A m \in StoreNames : n <= m

AttemptNext ==
    \/ \E f \in FileStates : ExternalWrite(PATH_A, f)
    \/ \E times \in TimeSamples : CreateNew(PATH_A, 300, times, fs[PATH_A])
    \/ \E times \in TimeSamples : UpdateBackup(times, fs[PATH_A])
    \/ Drop
    \/ TryCompress
    \/ /\ compressed.some
       /\ \E input \in DecompressInputs(compressed.bytes) : TryDecompress(input)
    \/ WriteToFile(BackupName)

SpecAttempt == Init /\ [][AttemptNext]_vars

---------------------------------------------------------------------------
(* The version counters on their own: a counter of each kind, made by      *)
(* new(), new_invalid() or new_with_version(), and the operations on it.   *)

VersionSamples ==
    {INVALID, FileVersion_new, u32_from(2), U32(0, LIMB - 1), U32(2^15, 0),
     u32_pred(U32_MAX), U32_MAX}

\* the operands of increment_n
OperandSamples ==
    {U32_ZERO, U32_ONE, u32_from(2), U32(2^15, 0), u32_pred(U32_MAX), U32_MAX}

VersionInit ==
    /\ wv \in VersionSamples
    /\ sv \in VersionSamples
    /\ ops = 0
    /\ fs = [p \in SourcePaths |-> File(Text(1, 0))]
    /\ backup = NoBackup
    /\ backup_copy = NoBackup
    /\ compressed = NoCompressed
    /\ original = NoBackup
    /\ store = [n \in StoreNames |-> NoFile]
    /\ manager = NoManager
    /\ UnitsAtRest
    /\ last = Called("init", "ok", U32_ZERO)

Outcome(r) == IF r.panic THEN "panic" ELSE "ok"

\* wv.increment()
WrappingIncrement ==
    /\ Running /\ ops < MaxVersionOps
    /\ LET r == wrapping_increment(wv)
       IN  wv' = r.v /\ last' = Called("wrapping::increment", Outcome(r), U32_ONE)
    /\ ops' = ops + 1
    /\ UNCHANGED <<sv, pipelineVars, storeVars>>
    /\ UNCHANGED unitVars

\* wv.increment_n(n)
WrappingIncrementN(n) ==
    /\ Running /\ ops < MaxVersionOps
    /\ LET r == wrapping_increment_n(wv, n)
       IN  wv' = r.v /\ last' = Called("wrapping::increment_n", Outcome(r), n)
    /\ ops' = ops + 1
    /\ UNCHANGED <<sv, pipelineVars, storeVars>>
    /\ UNCHANGED unitVars

\* sv.increment()
SaturatingIncrement ==
    /\ Running /\ ops < MaxVersionOps
    /\ LET r == saturating_increment(sv)
       IN  sv' = r.v /\ last' = Called("saturating::increment", Outcome(r), U32_ONE)
    /\ ops' = ops + 1
    /\ UNCHANGED <<wv, pipelineVars, storeVars>>
    /\ UNCHANGED unitVars

\* sv.increment_n(n)
SaturatingIncrementN(n) ==
    /\ Running /\ ops < MaxVersionOps
    /\ LET r == saturating_increment_n(sv, n)
       IN  sv' = r.v /\ last' = Called("saturating::increment_n", Outcome(r), n)
    /\ ops' = ops + 1
    /\ UNCHANGED <<wv, pipelineVars, storeVars>>
    /\ UNCHANGED unitVars

VersionNext ==
    \/ WrappingIncrement
    \/ \E n \in OperandSamples : WrappingIncrementN(n)
    \/ SaturatingIncrement
    \/ \E n \in OperandSamples : SaturatingIncrementN(n)

SpecVersion == VersionInit /\ [][VersionNext]_vars

---------------------------------------------------------------------------
(* The arithmetic of the counters: +, +=, - and -= with a u32, an i32 or a *)
(* FileVersion operand, next to increment and increment_n.  A step with +  *)
(* or - stores the result: wv = wv + rhs, as wv += rhs does.               *)

\* how many operations a run of the arithmetic makes
MaxArithOps == 2

\* the counters the arithmetic starts from, new() among them
ArithSamples == VersionSamples \ {INVALID}

\* i32 operands
I32Samples == {I32_MIN, -2, -1, 0, 1, 2, I32_MAX}

\* u32 operands
U32Samples == OperandSamples

\* FileVersion operands: valid counters
SelfSamples == {FileVersion_new, u32_from(2), U32(2^15, 0), U32_MAX}

ArithInit ==
    /\ wv \in ArithSamples
    /\ sv = wv
    /\ ops = 0
    /\ fs = [p \in SourcePaths |-> File(Text(1, 0))]
    /\ backup = NoBackup
    /\ backup_copy = NoBackup
    /\ compressed = NoCompressed
    /\ original = NoBackup
    /\ store = [n \in StoreNames |-> NoFile]
    /\ manager = NoManager
    /\ UnitsAtRest
    /\ last = Called("init", "ok", U32_ZERO)

\* the wrapping counter becomes r.v by the operation `op` on `input`
WrappingResult(op, r, input) ==
    /\ Running /\ ops < MaxArithOps
    /\ wv' = r.v
    /\ last' = Called(op, Outcome(r), input)
    /\ ops' = ops + 1
    /\ UNCHANGED <<sv, pipelineVars, storeVars>>
    /\ UNCHANGED unitVars

\* the saturating counter becomes r.v by the operation `op` on `input`
SaturatingResult(op, r, input) ==
    /\ Running /\ ops < MaxArithOps
    /\ sv' = r.v
    /\ last' = Called(op, Outcome(r), input)
    /\ ops' = ops + 1
    /\ UNCHANGED <<wv, pipelineVars, storeVars>>
    /\ UNCHANGED unitVars

\* wv += n (n: u32)
WrappingAddU32(n) ==
    WrappingResult("wrapping::add_u32", Returned(wrapping_add_assign_u32(wv, n)), n)
\* wv += rhs (rhs: FileVersion)
WrappingAddSelf(rhs) ==
    WrappingResult("wrapping::add_self", Returned(wrapping_add_assign_Self(wv, rhs)), rhs)
\* wv += r (r: i32)
WrappingAddI32(r) ==
    WrappingResult("wrapping::add_i32", Returned(wrapping_add_assign_i32(wv, r)), r)
\* wv -= n (n: u32)
WrappingSubU32(n) ==
    WrappingResult("wrapping::sub_u32", Returned(wrapping_sub_assign_u32(wv, n)), n)
\* wv -= rhs (rhs: FileVersion)
WrappingSubSelf(rhs) ==
    WrappingResult("wrapping::sub_self", Returned(wrapping_sub_assign_Self(wv, rhs)), rhs)
\* wv -= r (r: i32)
WrappingSubI32(r, checked) ==
    WrappingResult("wrapping::sub_i32", wrapping_sub_assign_i32(wv, r, checked), r)

\* sv += n (n: u32)
SaturatingAddU32(n) ==
    SaturatingResult("saturating::add_u32", Returned(saturating_add_assign_u32(sv, n)), n)
\* sv += rhs (rhs: FileVersion)
SaturatingAddSelf(rhs) ==
    SaturatingResult("saturating::add_self", Returned(saturating_add_assign_Self(sv, rhs)), rhs)
\* sv += r (r: i32)
SaturatingAddI32(r) ==
    SaturatingResult("saturating::add_i32", Returned(saturating_add_assign_i32(sv, r)), r)
\* sv -= n (n: u32)
SaturatingSubU32(n) ==
    SaturatingResult("saturating::sub_u32", Returned(saturating_sub_assign_u32(sv, n)), n)
\* sv -= rhs (rhs: FileVersion)
SaturatingSubSelf(rhs) ==
    SaturatingResult("saturating::sub_self", Returned(saturating_sub_assign_Self(sv, rhs)), rhs)
\* sv -= r (r: i32)
SaturatingSubI32(r, checked) ==
    SaturatingResult("saturating::sub_i32", saturating_sub_assign_i32(sv, r, checked), r)

ArithNext ==
    \/ ops < MaxArithOps /\ WrappingIncrement
    \/ ops < MaxArithOps /\ \E n \in U32Samples : WrappingIncrementN(n)
    \/ ops < MaxArithOps /\ SaturatingIncrement
    \/ ops < MaxArithOps /\ \E n \in U32Samples : SaturatingIncrementN(n)
    \/ \E n \in U32Samples : WrappingAddU32(n)
    \/ \E rhs \in SelfSamples : WrappingAddSelf(rhs)
    \/ \E r \in I32Samples : WrappingAddI32(r)
    \/ \E n \in U32Samples : WrappingSubU32(n)
    \/ \E rhs \in SelfSamples : WrappingSubSelf(rhs)
    \/ \E r \in I32Samples, checked \in BOOLEAN : WrappingSubI32(r, checked)
    \/ \E n \in U32Samples : SaturatingAddU32(n)
    \/ \E rhs \in SelfSamples : SaturatingAddSelf(rhs)
    \/ \E r \in I32Samples : SaturatingAddI32(r)
    \/ \E n \in U32Samples : SaturatingSubU32(n)
    \/ \E rhs \in SelfSamples : SaturatingSubSelf(rhs)
    \/ \E r \in I32Samples, checked \in BOOLEAN : SaturatingSubI32(r, checked)

SpecArith == ArithInit /\ [][ArithNext]_vars


----------------------------------------------------------------------------
(* The header parsers on their own: a caller hands them a slice, which is  *)
(* the byte image of a header, a part of one, or one with bytes after it.  *)

\* the sizes a header declares: one, two and four bytes wide
SizeSamples == {0, 1, 258, 2147483647}
HeaderSamples ==
    {FileHeader_new(m, f) : m \in SizeSamples, f \in {0, 258}}
\* what follows the header in a slice
TailSamples == {<<>>, <<7>>, <<7, 9>>}
SliceSamples ==
    UNION {{SubSeq(bytes_of(h) \o t, 1, k) : k \in 0..(size_of_FileHeader + Len(t))} :
               h \in HeaderSamples, t \in TailSamples}

programVars == <<versionVars, pipelineVars, storeVars>>

\* the program's other state, as it is after construction
ProgramAtRest ==
    /\ wv = FileVersion_new /\ sv = FileVersion_new /\ ops = 0
    /\ fs = [p \in SourcePaths |-> File(Text(1, 0))]
    /\ backup = NoBackup /\ backup_copy = NoBackup
    /\ compressed = NoCompressed /\ original = NoBackup
    /\ store = [n \in StoreNames |-> NoFile] /\ manager = NoManager

HeaderInit ==
    /\ given \in SliceSamples
    /\ imaged = NoHeader
    /\ parsed = NoParse
    /\ MetaAtRest /\ AllocatorAtRest /\ ProgramAtRest
    /\ LaterUnitsAtRest
    /\ last = Called("init", "ok", "")

\* given = bytemuck::bytes_of(&h)
BytesOf(h) ==
    /\ given' = bytes_of(h)
    /\ imaged' = [some |-> TRUE, val |-> h]
    /\ parsed' = NoParse
    /\ last' = Called("bytes_of", "ok", "")
    /\ UNCHANGED <<programVars, pathVars, watchVars, file_meta, idVars>>

\* the parser `op` returned r for the slice
HeaderParsed(op, r) ==
    /\ parsed' = r
    /\ last' = Called(op, IF r.ok THEN "ok" ELSE "err", "")
    /\ UNCHANGED <<given, imaged>>
    /\ UNCHANGED <<programVars, pathVars, watchVars, file_meta, idVars>>

\* FileHeader::try_from_bytes(given)
TryFromBytes == HeaderParsed("try_from_bytes", try_from_bytes(given))

\* FileHeader::try_from_bytes_exact(given)
TryFromBytesExact ==
    HeaderParsed("try_from_bytes_exact", try_from_bytes_exact(given))

HeaderNext ==
    \/ \E h \in HeaderSamples : BytesOf(h)
    \/ TryFromBytes
    \/ TryFromBytesExact

SpecHeader == HeaderInit /\ [][HeaderNext]_vars


----------------------------------------------------------------------------
(* A FileMeta record on its own: made by new_from_metadata for a file of   *)
(* some path, then refreshed from the file's metadata, bumped and          *)
(* re-stamped in any order.                                                *)

\* Timestamp::now() at a later time than the record was made
LaterSamples == {400}

MetaSamples ==
    {new_from_metadata(p, now, Metadata(f, times), v) :
         p \in SourcePaths, now \in NowSamples, f \in FileStates \ {NoFile},
         times \in TimeSamples, v \in BaseVersions}

MetaInit ==
    /\ file_meta \in MetaSamples
    /\ HeaderAtRest /\ AllocatorAtRest /\ ProgramAtRest
    /\ LaterUnitsAtRest
    /\ last = Called("init", "ok", "")

\* file_meta.update_from_metadata(&metadata)
UpdateFromMetadata(metadata) ==
    /\ Running
    /\ file_meta' = update_from_metadata(file_meta, metadata)
    /\ last' = Called("update_from_metadata", "ok", metadata)
    /\ UNCHANGED <<programVars, pathVars, watchVars, headerVars, idVars>>

\* file_meta.bump_version()
BumpVersion ==
    /\ Running /\ ops < MaxBumps
    /\ \E r \in {bump_version(file_meta)} :
           /\ file_meta' = r.meta
           /\ last' = Called("bump_version", Outcome(r), "")
    /\ ops' = ops + 1
    /\ UNCHANGED <<wv, sv, pipelineVars, storeVars, headerVars, idVars>>
    /\ UNCHANGED <<pathVars, watchVars>>

\* file_meta.set_created_now()
SetCreatedNow(now) ==
    /\ Running
    /\ file_meta' = [file_meta EXCEPT !.backup_created = now]
    /\ last' = Called("set_created_now", "ok", "")
    /\ UNCHANGED <<programVars, pathVars, watchVars, headerVars, idVars>>

MetaNext ==
    \/ \E f \in FileStates \ {NoFile}, times \in TimeSamples :
           UpdateFromMetadata(Metadata(f, times))
    \/ BumpVersion
    \/ \E now \in LaterSamples : SetCreatedNow(now)

SpecMeta == MetaInit /\ [][MetaNext]_vars


----------------------------------------------------------------------------
(* xstd::id_gen::IdAllocator<u8>, shared by the threads.  alloc and free   *)
(* take the mutex and run their body under it; the guard is dropped when   *)
(* the call returns, and a panic under the lock poisons the mutex.  A      *)
(* thread frees only an ID that is held and that no other call is freeing. *)

U8_MAX == 255

NoId == [some |-> FALSE]
SomeId(id) == [some |-> TRUE, id |-> id]

IdAllocatorInner(next, max, free) == [next |-> next, max |-> max, free |-> free]

\* IdAllocator::new
IdAllocator_new(min, max) == IdAllocatorInner(min, max, <<>>)

\* the body of IdAllocator::alloc under the lock: [panic, inner, id].
\* `inner.next += 1` overflows when the ID is u8::MAX: a build that checks
\* overflow panics, another wraps to 0.
IdAllocator_alloc(inner, checked) ==
    IF inner.free # <<>>
    THEN [panic |-> FALSE, inner |-> [inner EXCEPT !.free = Tail(@)],
          id |-> SomeId(Head(inner.free))]
    ELSE LET id == inner.next
         IN  IF id > inner.max
             THEN [panic |-> FALSE, inner |-> inner, id |-> NoId]
             ELSE IF id = U8_MAX /\ checked
             THEN [panic |-> TRUE, inner |-> inner, id |-> NoId]
             ELSE [panic |-> FALSE,
                   inner |-> [inner EXCEPT !.next = (id + 1) % (U8_MAX + 1)],
                   id |-> SomeId(id)]

\* free as it would be if it put the ID at the front of the queue
IdAllocator_free_front(inner, id) == [inner EXCEPT !.free = <<id>> \o @]

\* the body of IdAllocator::free under the lock
IdAllocator_free(inner, id) == [inner EXCEPT !.free = Append(@, id)]

\* how many allocations of `id` are held
Holds(ids, id) == Cardinality({i \in DOMAIN ids : ids[i] = id})
\* how many calls of free(id) are under way
Freeing(id) ==
    Cardinality({t \in Threads : /\ threads[t].pc \in {"free", "free_locked"}
                                 /\ threads[t].id = id})
\* `ids` without one allocation of `id`
Released(ids, id) ==
    LET i == CHOOSE i \in DOMAIN ids : ids[i] = id
    IN  SubSeq(ids, 1, i - 1) \o SubSeq(ids, i + 1, Len(ids))

\* the allocations a run may hold at a time
MaxHeld == 4

\* IdAllocator::new(min, max)
RangeSamples == {<<3, 5>>, <<5, 3>>, <<U8_MAX - 1, U8_MAX>>}

Locked(t) == [holder |-> t, poisoned |-> FALSE]
Poisoned == [holder |-> 0, poisoned |-> TRUE]
At(pc, id) == [pc |-> pc, id |-> id]

AllocatorInit ==
    /\ \E range \in RangeSamples :
           /\ ida = IdAllocator_new(range[1], range[2])
           /\ ida_min = range[1]
    /\ mutex = Unlocked
    /\ threads = [t \in Threads |-> Idle]
    /\ held = <<>>
    /\ issued = {}
    /\ HeaderAtRest /\ MetaAtRest /\ ProgramAtRest
    /\ LaterUnitsAtRest
    /\ last = Called("init", "ok", NoId)

\* thread t calls ida.alloc()
CallAlloc(t) ==
    /\ threads[t].pc = "idle"
    /\ Len(held) < MaxHeld
    /\ threads' = [threads EXCEPT ![t] = At("alloc", 0)]
    /\ last' = Called("call alloc", "ok", NoId)
    /\ UNCHANGED <<ida, mutex, held, ida_min, issued>>
    /\ UNCHANGED <<programVars, pathVars, watchVars, headerVars, file_meta>>

\* thread t calls ida.free(id)
CallFree(t, id) ==
    /\ threads[t].pc = "idle"
    /\ Freeing(id) < Holds(held, id)
    /\ threads' = [threads EXCEPT ![t] = At("free", id)]
    /\ last' = Called("call free", "ok", SomeId(id))
    /\ UNCHANGED <<ida, mutex, held, ida_min, issued>>
    /\ UNCHANGED <<programVars, pathVars, watchVars, headerVars, file_meta>>

\* self.0.lock().expect("lock poisoned") in thread t
Lock(t) ==
    /\ threads[t].pc \in {"alloc", "free"}
    /\ mutex.holder = 0
    /\ IF mutex.poisoned
       THEN /\ threads' = [threads EXCEPT ![t] = At("panicked", 0)]
            /\ last' = Called("lock", "panic", NoId)
            /\ UNCHANGED mutex
       ELSE /\ threads' = [threads EXCEPT ![t].pc =
                               IF @ = "alloc" THEN "alloc_locked"
                               ELSE "free_locked"]
            /\ last' = Called("lock", "ok", NoId)
            /\ mutex' = Locked(t)
    /\ UNCHANGED <<ida, held, ida_min, issued>>
    /\ UNCHANGED <<programVars, pathVars, watchVars, headerVars, file_meta>>

\* thread t is under the lock in alloc, r is what the body yields: the call
\* returns r.id, or panics
AllocReturns(t, r) ==
    /\ ida' = r.inner
    /\ held' = IF r.id.some THEN Append(held, r.id.id) ELSE held
    /\ issued' = IF r.id.some THEN issued \cup {r.id.id} ELSE issued
    /\ mutex' = IF r.panic THEN Poisoned ELSE Unlocked
    /\ threads' = [threads EXCEPT ![t] =
                       IF r.panic THEN At("panicked", 0) ELSE Idle]
    /\ last' = Called("IdAllocator::alloc", Outcome(r), r.id)
    /\ UNCHANGED ida_min
    /\ UNCHANGED <<programVars, pathVars, watchVars, headerVars, file_meta>>

\* the body of alloc in thread t, to its return
Alloc(t, checked) ==
    /\ threads[t].pc = "alloc_locked"
    /\ AllocReturns(t, IdAllocator_alloc(ida, checked))

\* the body of free in thread t, to its return
Free(t) ==
    /\ threads[t].pc = "free_locked"
    /\ ida' = IdAllocator_free(ida, threads[t].id)
    /\ held' = Released(held, threads[t].id)
    /\ mutex' = Unlocked
    /\ threads' = [threads EXCEPT ![t] = Idle]
    /\ last' = Called("IdAllocator::free", "ok", SomeId(threads[t].id))
    /\ UNCHANGED <<ida_min, issued>>
    /\ UNCHANGED <<programVars, pathVars, watchVars, headerVars, file_meta>>

AllocatorNext ==
    \/ \E t \in Threads : CallAlloc(t)
    \/ \E t \in Threads, id \in 0..U8_MAX : CallFree(t, id)
    \/ \E t \in Threads : Lock(t)
    \/ \E t \in Threads, checked \in BOOLEAN : Alloc(t, checked)
    \/ \E t \in Threads : Free(t)

SpecAllocator == AllocatorInit /\ [][AllocatorNext]_vars


----------------------------------------------------------------------------
(* xstd::path::PathExt::clean on a Unix path.  A path is the sequence of   *)
(* its characters; std's Path::components, PathBuf::push and PathBuf::pop  *)
(* are modelled on that sequence as std defines them for Unix.             *)

SEP == "/"
DOT == "."

RootDir == [kind |-> "RootDir", name |-> <<SEP>>]
CurDir == [kind |-> "CurDir", name |-> <<DOT>>]
ParentDir == [kind |-> "ParentDir", name |-> <<DOT, DOT>>]
Normal(name) == [kind |-> "Normal", name |-> name]

has_root(s) == s # <<>> /\ s[1] = SEP

\* where the segments between the separators start, the empty ones left out
SegmentStarts(s) ==
    {i \in 1..Len(s) : s[i] # SEP /\ (i = 1 \/ s[i - 1] = SEP)}
SegmentAt(s, i) ==
    LET ends == {j \in i..Len(s) : j = Len(s) \/ s[j + 1] = SEP}
    IN  SubSeq(s, i, CHOOSE j \in ends : \A k \in ends : j <= k)
InOrder(starts) ==
    [k \in 1..Cardinality(starts) |->
        CHOOSE i \in starts : Cardinality({j \in starts : j < i}) = k - 1]

\* the component a segment stands for; a "." is a component only at the
\* very start of a path without root, elsewhere it is skipped
ComponentAt(s, i) ==
    LET seg == SegmentAt(s, i)
    IN  IF seg = <<DOT>> THEN CurDir
        ELSE IF seg = <<DOT, DOT>> THEN ParentDir
        ELSE Normal(seg)
Skipped(s, i) == SegmentAt(s, i) = <<DOT>> /\ i # 1

\* Path::components
components(s) ==
    LET starts == InOrder({i \in SegmentStarts(s) : ~Skipped(s, i)})
    IN  (IF has_root(s) THEN <<RootDir>> ELSE <<>>)
            \o [k \in DOMAIN starts |-> ComponentAt(s, starts[k])]

\* Components::as_path: the path of the components
RECURSIVE joined(_)
joined(comps) ==
    IF comps = <<>> THEN <<>>
    ELSE IF Len(comps) = 1 THEN comps[1].name
    ELSE comps[1].name \o <<SEP>> \o joined(Tail(comps))
as_path(comps) ==
    IF comps # <<>> /\ comps[1] = RootDir
    THEN <<SEP>> \o joined(Tail(comps))
    ELSE joined(comps)

\* PathBuf::push(p): an absolute p replaces the buffer; otherwise p is
\* appended, after a separator if the buffer does not end in one
PathBuf_push(buf, p) ==
    IF has_root(p) THEN p
    ELSE IF buf # <<>> /\ buf[Len(buf)] # SEP THEN buf \o <<SEP>> \o p
    ELSE buf \o p

\* PathBuf::pop: the buffer becomes its parent, if it has one
PathBuf_pop(buf) ==
    LET comps == components(buf)
    IN  IF comps = <<>> \/ comps[Len(comps)] = RootDir THEN buf
        ELSE as_path(SubSeq(comps, 1, Len(comps) - 1))

\* the buffer after the next ".." as it would be if ".." always dropped the
\* last component
clean_component_popping(buf, component) ==
    IF component.kind = "CurDir" THEN buf
    ELSE IF component.kind = "ParentDir" THEN PathBuf_pop(buf)
    ELSE PathBuf_push(buf, component.name)

\* one round of the loop of clean: the buffer after `component`
clean_component(buf, component) ==
    IF component.kind = "CurDir" THEN buf
    ELSE IF component.kind = "ParentDir"
    THEN LET seen == components(buf)
         IN  IF seen = <<>> \/ seen[Len(seen)] = ParentDir
             THEN PathBuf_push(buf, ParentDir.name)
             ELSE IF seen[Len(seen)] = RootDir THEN buf
             ELSE PathBuf_pop(buf)
    ELSE PathBuf_push(buf, component.name)

RECURSIVE clean_loop(_, _)
clean_loop(buf, comps) ==
    IF comps = <<>> THEN buf
    ELSE clean_loop(clean_component(buf, Head(comps)), Tail(comps))

\* PathExt::clean
clean(path) ==
    LET buf == clean_loop(<<>>, components(path))
    IN  IF buf = <<>> THEN PathBuf_push(buf, <<DOT>>) ELSE buf

\* the longest path that is drawn character by character
MaxPathLen == 5
PathChars == {SEP, DOT, "a", "b"}
RECURSIVE PathsOfLen(_)
PathsOfLen(n) ==
    IF n = 0 THEN {<<>>}
    ELSE {Append(p, c) : p \in PathsOfLen(n - 1), c \in PathChars}
\* inputs of tests::test_clean that are longer, their names cut to a letter
TestPaths ==
    {<<"a", SEP, "b", SEP, DOT, DOT, SEP, DOT, DOT, SEP, DOT, DOT>>,
     <<SEP, "a", SEP, "b", SEP, DOT, DOT, SEP, DOT, DOT, SEP, DOT, DOT>>,
     <<"a", SEP, "b", SEP, DOT, DOT, SEP, DOT, DOT, SEP, DOT, DOT, SEP, "c",
       SEP, "d", SEP, DOT, DOT, SEP, DOT, DOT, SEP, DOT, DOT, SEP, "e">>,
     <<"a", SEP, DOT, DOT, SEP, DOT, DOT, SEP, DOT, SEP, DOT, SEP, DOT, DOT,
       SEP, "d">>}
PathSamples == UNION {PathsOfLen(n) : n \in 0..MaxPathLen} \cup TestPaths

PathInit ==
    /\ path_in \in PathSamples
    /\ cleaned = NoPath
    /\ HeaderAtRest /\ MetaAtRest /\ AllocatorAtRest /\ WatcherAtRest
    /\ ProgramAtRest
    /\ last = Called("init", "ok", "")

\* Path::new(path_in).clean()
Clean ==
    /\ ~cleaned.some
    /\ cleaned' = [some |-> TRUE, path |-> clean(path_in)]
    /\ last' = Called("clean", "ok", "")
    /\ UNCHANGED <<path_in, watchVars, headerVars, file_meta, idVars>>
    /\ UNCHANGED programVars

PathNext == Clean

SpecPath == PathInit /\ [][PathNext]_vars


----------------------------------------------------------------------------
(* NotifyWatcher (watcher/src/watcher.rs). `nw` is the watcher: its        *)
(* is_watching flag and its watched_files list. `registered` is the set of *)
(* paths the inner notify watcher holds a watch for. A call of the inner   *)
(* watcher fails for the paths of `failing`, the paths the system refuses  *)
(* at the time of the call (a file that is gone, a watch limit).           *)

WatchPaths == {"a", "b"}

\* NotifyWatcher::new: not watching, no files
NotifyWatcher_new == [some |-> TRUE, is_watching |-> FALSE, watched_files |-> <<>>]

\* self.watcher.watch(path, NonRecursive): [ok, registered]
watch(reg, path, failing) ==
    IF path \in failing THEN [ok |-> FALSE, registered |-> reg]
    ELSE [ok |-> TRUE, registered |-> reg \cup {path}]

\* self.watcher.unwatch(path): an error too when no watch is held for path
unwatch(reg, path, failing) ==
    IF path \in failing \/ path \notin reg
    THEN [ok |-> FALSE, registered |-> reg]
    ELSE [ok |-> TRUE, registered |-> reg \ {path}]

\* the loop of start_watch: `?` leaves it at the first watch that fails
RECURSIVE watch_each(_, _, _)
watch_each(files, reg, failing) ==
    IF files = <<>> THEN [ok |-> TRUE, registered |-> reg]
    ELSE LET w == watch(reg, Head(files), failing)
         IN  IF ~w.ok THEN w
             ELSE watch_each(Tail(files), w.registered, failing)

\* the loop of stop_watch
RECURSIVE unwatch_each(_, _, _)
unwatch_each(files, reg, failing) ==
    IF files = <<>> THEN [ok |-> TRUE, registered |-> reg]
    ELSE LET u == unwatch(reg, Head(files), failing)
         IN  IF ~u.ok THEN u
             ELSE unwatch_each(Tail(files), u.registered, failing)

\* what a call leaves: its result, self and the inner watcher's watches
Watching(ok, self, reg) == [ok |-> ok, self |-> self, registered |-> reg]

\* NotifyWatcher::start_watch
start_watch(self, reg, failing) ==
    IF self.is_watching THEN Watching(TRUE, self, reg)
    ELSE LET w == watch_each(self.watched_files, reg, failing)
         IN  IF ~w.ok THEN Watching(FALSE, self, w.registered)
             ELSE Watching(TRUE, [self EXCEPT !.is_watching = TRUE],
                           w.registered)

\* NotifyWatcher::stop_watch
stop_watch(self, reg, failing) ==
    IF ~self.is_watching THEN Watching(TRUE, self, reg)
    ELSE LET u == unwatch_each(self.watched_files, reg, failing)
         IN  IF ~u.ok THEN Watching(FALSE, self, u.registered)
             ELSE Watching(TRUE, [self EXCEPT !.is_watching = FALSE],
                           u.registered)

\* NotifyWatcher::update_watched_files
update_watched_files(self, reg, files, failing) ==
    LET currently_watching == self.is_watching
        stopped == IF currently_watching THEN stop_watch(self, reg, failing)
                   ELSE Watching(TRUE, self, reg)
        replaced == [stopped.self EXCEPT !.watched_files = files]
    IN  IF ~stopped.ok THEN stopped
        ELSE IF currently_watching
        THEN start_watch(replaced, stopped.registered, failing)
        ELSE Watching(TRUE, replaced, stopped.registered)

\* the lists given to update_watched_files: up to two paths, a path twice
\* among them
FileLists ==
    {<<>>} \cup {<<p>> : p \in WatchPaths}
           \cup {<<p, q>> : p \in WatchPaths, q \in WatchPaths}

WatcherInit ==
    /\ nw = NotifyWatcher_new
    /\ registered = {}
    /\ HeaderAtRest /\ MetaAtRest /\ AllocatorAtRest /\ PathAtRest
    /\ ProgramAtRest
    /\ last = Called("init", "ok", <<>>)

\* the watcher after a call that left w
WatcherAfter(op, w, input) ==
    /\ nw' = w.self
    /\ registered' = w.registered
    /\ last' = Called(op, IF w.ok THEN "ok" ELSE "err", input)
    /\ UNCHANGED <<pathVars, headerVars, file_meta, idVars>>
    /\ UNCHANGED programVars

\* FileWatcher::start
Start(failing) ==
    WatcherAfter("start", start_watch(nw, registered, failing), <<>>)

\* FileWatcher::stop
Stop(failing) ==
    WatcherAfter("stop", stop_watch(nw, registered, failing), <<>>)

\* NotifyWatcher::update_watched_files(files)
UpdateWatchedFiles(files, failing) ==
    WatcherAfter("update_watched_files",
                 update_watched_files(nw, registered, files, failing), files)

WatcherNext ==
    \/ \E failing \in SUBSET WatchPaths : Start(failing)
    \/ \E failing \in SUBSET WatchPaths : Stop(failing)
    \/ \E files \in FileLists, failing \in SUBSET WatchPaths :
           UpdateWatchedFiles(files, failing)

SpecWatcher == WatcherInit /\ [][WatcherNext]_vars


---------------------------------------------------------------------------
(* Properties of the backup pipeline (Spec)                                *)

\* C1: a container made by create_new holds the bytes of the source file as
\* they were read; compressing it succeeds and decompressing the result
\* succeeds and gives back a container equal to it in header, metadata
\* (version, creation timestamp, path, filesystem snapshot) and file bytes.
\* The same holds when the caller runs the two calls: decompressing the
\* intact stream returns the container that was compressed.
RoundTrip ==
    /\ (last.op = "create_new" /\ last.result = "ok") =>
           LET c == try_compress(backup)
           IN  /\ backup.file_bytes = fs[backup.meta.path].bytes
               /\ c.result = "ok"
               /\ try_decompress(c.compressed) =
                      [result |-> "ok", backup |-> backup]
    /\ (last.op = "try_decompress" /\ last.input = "intact" /\ original.some) =>
           /\ last.result = "ok"
           /\ backup = original

\* a container of create_new, with file bytes, came back from the round trip
RoundTripDone ==
    /\ last.op = "try_decompress" /\ last.input = "intact"
    /\ last.result = "ok"
    /\ original.some
    /\ original.meta.version = FileVersion_new
    /\ original.meta.fs_meta.created = None
    /\ Len(backup.file_bytes) = MaxFileLen

\* C2: after a successful create_new or update_backup the header's
\* meta_size is the length of the encoded metadata, its file_size is the
\* length of the file bytes, and try_compress passes its size assertions.
HeaderSizesConsistent ==
    (last.op \in {"create_new", "update_backup"} /\ last.result = "ok") =>
        /\ to_vec(backup.meta).ok
        /\ backup.header.meta_size = Len(to_vec(backup.meta).val)
        /\ backup.header.file_size = Len(backup.file_bytes)
        /\ try_compress(backup).result = "ok"

\* an update changed both sizes of the container that create_new had made
SizesChangedByUpdate ==
    /\ last.op = "update_backup" /\ last.result = "ok"
    /\ backup_copy.some
    /\ backup_copy.meta.path = backup.meta.path
    /\ backup.header.meta_size # backup_copy.header.meta_size
    /\ backup.header.file_size # backup_copy.header.file_size

\* C3: a successful update_backup raises the version by exactly 1 while it
\* is below u32::MAX, and leaves it at u32::MAX once it is there; the
\* version never wraps or decreases.
VersionMonotonic ==
    [][ ( /\ \E times \in TimeSamples, at_read \in FileStates :
                 UpdateBackup(times, at_read)
          /\ last'.result = "ok" )
        => /\ is_valid(backup.meta.version)
           /\ u32_le(backup.meta.version, backup'.meta.version)
           /\ backup'.meta.version =
                  IF backup.meta.version = U32_MAX THEN U32_MAX
                  ELSE wrapping_add(backup.meta.version, U32_ONE) ]_vars

\* an update succeeded on a container whose version is u32::MAX
UpdatedAtMax ==
    /\ last.op = "update_backup" /\ last.result = "ok"
    /\ backup.meta.version = U32_MAX

\* C4: create_new yields version 1; a successful update_backup of a
\* container at version 1 yields version 2, and a copy taken before the
\* update is what it was: version 1, its own header and file bytes.
CreateThenUpdate ==
    [][ /\ (last'.op = "create_new" /\ last'.result = "ok") =>
               backup'.meta.version = U32_ONE
        /\ ( /\ \E times \in TimeSamples, at_read \in FileStates :
                    UpdateBackup(times, at_read)
             /\ last'.result = "ok"
             /\ backup.meta.version = U32_ONE
             /\ backup_copy = backup )
           => /\ backup'.meta.version = u32_from(2)
              /\ backup_copy' = backup
              /\ backup_copy'.meta.version = U32_ONE ]_vars

\* the container is at version 2 with other bytes, the copy at version 1
CopyKeptVersionOne ==
    /\ last.op = "update_backup" /\ last.result = "ok"
    /\ backup.meta.version = u32_from(2)
    /\ backup_copy.some
    /\ backup_copy.meta.version = U32_ONE
    /\ backup_copy.meta.path = backup.meta.path
    /\ backup_copy.file_bytes # backup.file_bytes
    /\ backup_copy.header # backup.header

\* C7: try_decompress returns Err when the sizes the header declares differ
\* from the bytes that follow it.
MissizedIsErr ==
    (last.op = "try_decompress" /\ last.input = "missized") =>
        last.result = "err"

\* C8: try_decompress of a strict prefix of a stream of try_compress
\* returns an error, never a container.
PrefixIsErr ==
    (last.op = "try_decompress" /\ last.input = "prefix") =>
        /\ last.result = "err"
        /\ ~backup.some

\* a strict prefix of a stream was given to try_decompress
PrefixTried ==
    /\ last.op = "try_decompress" /\ last.input = "prefix"
    /\ last.result = "err"
    /\ original.some

---------------------------------------------------------------------------
(* Properties of the store directory (SpecStore)                           *)

\* what try_decompress recovers from a file of the store
Recovered(file) == try_decompress(CompressedBackupFile_new(file.bytes))

\* C5: when every file of the store directory is a stream that
\* try_compress made and write_to_file wrote, BackupManager::new succeeds
\* and records for each file the header and metadata that try_decompress
\* recovers from it.
StoreReadsWhatWriterWrote ==
    ( /\ last.op = "BackupManager::new"
      /\ Entries(store) # {}
      /\ \A n \in Entries(store) : Recovered(store[n]).result = "ok" )
    => /\ last.result = "ok"
       /\ \A i \in DOMAIN manager.file_info :
              LET info == manager.file_info[i]
                  b == Recovered(store[info.backup_path]).backup
              IN  info.header = b.header /\ info.meta = b.meta

\* C6: after a successful BackupManager::new the index has one entry per
\* entry of the directory it scanned: the paths of the index are distinct,
\* they are exactly the files of the directory, and each entry holds what
\* the leading bytes of its file give.
IndexComplete ==
    (last.op = "BackupManager::new" /\ last.result = "ok") =>
        LET idx == manager.file_info
        IN  /\ manager.some
            /\ Len(idx) = Cardinality(Entries(store))
            /\ {idx[i].backup_path : i \in DOMAIN idx} = Entries(store)
            /\ \A i, j \in DOMAIN idx :
                   idx[i].backup_path = idx[j].backup_path => i = j
            /\ \A i \in DOMAIN idx :
                   extract_header_and_meta(store[idx[i].backup_path]) =
                       Ok(<<idx[i].header, idx[i].meta>>)

\* a scan of a directory of two files succeeded
IndexOfTwo ==
    /\ last.op = "BackupManager::new" /\ last.result = "ok"
    /\ Cardinality(Entries(store)) = 2
    /\ Len(manager.file_info) = 2

\* what may follow the metadata in a backup file
PayloadSamples == {<<>>, <<0>>, <<255, 255>>}

\* C24: what extract_header_and_meta returns for a backup file is given by
\* the file's first size_of(FileHeader) + header.meta_size bytes: it returns
\* the same for these bytes alone and for these bytes with any payload,
\* whatever file_size the header declares.
PayloadNeverRead ==
    (last.op = "BackupManager::new" /\ last.result = "ok") =>
        \A i \in DOMAIN manager.file_info :
            LET info == manager.file_info[i]
                lead == SubSeq(store[info.backup_path].bytes, 1,
                               size_of_FileHeader + info.header.meta_size)
            IN  \A payload \in PayloadSamples :
                    extract_header_and_meta(File(lead \o payload))
                        = Ok(<<info.header, info.meta>>)

\* a file that holds a payload after its metadata was indexed
IndexedWithPayload ==
    /\ last.op = "BackupManager::new" /\ last.result = "ok"
    /\ \E i \in DOMAIN manager.file_info :
           LET info == manager.file_info[i]
           IN  /\ info.header.file_size > 0
               /\ Len(store[info.backup_path].bytes)
                      = size_of_FileHeader + info.header.meta_size
                            + info.header.file_size

---------------------------------------------------------------------------
(* Properties of the version counters (SpecVersion)                        *)

WrappingOps == {"wrapping::increment", "wrapping::increment_n"}
SaturatingOps == {"saturating::increment", "saturating::increment_n"}

\* C9: increment and increment_n on an invalid counter panic, wrapping and
\* saturating alike, and leave the counter invalid.
InvalidCounterGuard ==
    [][ ops' # ops =>
          /\ (last'.op \in WrappingOps /\ ~is_valid(wv)) =>
                 last'.result = "panic" /\ wv' = INVALID
          /\ (last'.op \in SaturatingOps /\ ~is_valid(sv)) =>
                 last'.result = "panic" /\ sv' = INVALID ]_vars

\* increment_n(2) was called on a wrapping counter made invalid
InvalidIncremented ==
    /\ ops = 1
    /\ last.op = "wrapping::increment_n" /\ last.input = u32_from(2)
    /\ last.result = "panic"
    /\ wv = INVALID

\* C10: on a valid wrapping counter, increment at u32::MAX gives 1,
\* increment_n gives 1 when the 32-bit wrapped sum is 0, and neither ever
\* gives 0.
WrappingSkipsZero ==
    [][ (ops' # ops /\ last'.op \in WrappingOps /\ is_valid(wv)) =>
          /\ last'.result = "ok"
          /\ is_valid(wv')
          /\ (last'.op = "wrapping::increment" /\ wv = U32_MAX) =>
                 wv' = U32_ONE
          /\ ( /\ last'.op = "wrapping::increment_n"
               /\ wrapping_add(wv, last'.input) = U32_ZERO ) =>
                 wv' = U32_ONE ]_vars

\* increment_n(2^31) was called on a counter at 2^31: the wrapped sum is 0
WrappedSumZero ==
    /\ ops = 1
    /\ last.op = "wrapping::increment_n" /\ last.input = U32(2^15, 0)
    /\ last.result = "ok"
    /\ wv = U32_ONE


---------------------------------------------------------------------------
(* Properties of the counter arithmetic (SpecArith)                        *)

\* the exact sum a + b is greater than u32::MAX
sum_exceeds_max(a, b) == a.hi + b.hi + ((a.lo + b.lo) \div LIMB) >= LIMB

\* C11: on a valid saturating counter, increment and increment_n whose
\* exact sum exceeds u32::MAX leave it at u32::MAX, and subtracting a u32,
\* an i32 or a FileVersion that is at least the counter leaves it at 1.
SaturatingClamps ==
    [][ (ops' # ops /\ is_valid(sv)) =>
          /\ ( /\ last'.op \in SaturatingOps
               /\ sum_exceeds_max(sv, last'.input) ) =>
                 last'.result = "ok" /\ sv' = U32_MAX
          /\ ( /\ last'.op \in {"saturating::sub_u32", "saturating::sub_self"}
               /\ u32_le(sv, last'.input) ) =>
                 last'.result = "ok" /\ sv' = U32_ONE
          /\ ( /\ last'.op = "saturating::sub_i32"
               /\ last'.input >= 0
               /\ u32_le(sv, u32_from(last'.input)) ) =>
                 last'.result = "ok" /\ sv' = U32_ONE ]_vars

\* increment_n(2) was called on a counter at u32::MAX - 1 or u32::MAX
ClampedAtMax ==
    /\ ops = 1
    /\ last.op = "saturating::increment_n" /\ last.input = u32_from(2)
    /\ last.result = "ok"
    /\ sv = U32_MAX

\* C12: a counter that starts valid stays valid (never 0) through every
\* sequence of increment, increment_n, +, +=, - and -= with u32, i32 and
\* valid FileVersion operands, wrapping and saturating alike.
CounterStaysValid == is_valid(wv) /\ is_valid(sv)

\* u32::MAX was subtracted from a wrapping counter, after another operation
SubtractedToOne ==
    /\ ops = MaxArithOps
    /\ last.op = "wrapping::sub_self" /\ last.input = U32_MAX
    /\ wv = U32_ONE

\* C19: on a valid wrapping counter, subtracting a non-negative u32, i32 or
\* FileVersion gives a result that is at most the counter, and exactly 1
\* when the operand is at least the counter.
WrappingSubSaturates ==
    [][ (ops' # ops /\ is_valid(wv) /\ last'.result = "ok") =>
          /\ ( /\ last'.op \in {"wrapping::sub_u32", "wrapping::sub_self"} ) =>
                 /\ u32_le(wv', wv)
                 /\ u32_le(wv, last'.input) => wv' = U32_ONE
          /\ ( /\ last'.op = "wrapping::sub_i32"
               /\ last'.input >= 0 ) =>
                 /\ u32_le(wv', wv)
                 /\ u32_le(wv, u32_from(last'.input)) => wv' = U32_ONE ]_vars


---------------------------------------------------------------------------
(* Properties of the files (SpecStore, SpecAttempt)                        *)

\* C13: after write_to_file(path) the file at path holds exactly the
\* compressed bytes of the container, whether the path held no file, a
\* shorter one or a longer one before; no other file of the store changes.
WriteReplacesWholesale ==
    [][ \A n \in StoreNames :
            WriteToFile(n) =>
                /\ last'.result = "ok"
                /\ store'[n] = File(compressed.bytes)
                /\ \A m \in StoreNames \ {n} : store'[m] = store[m] ]_vars

\* the stream was written next to a file that another process had put
StreamWritten ==
    /\ last.op = "write_to_file" /\ last.result = "ok"
    /\ compressed.some
    /\ \E n \in StoreNames :
           /\ store[n] = File(compressed.bytes)
           /\ \E m \in StoreNames \ {n} : store[m] \in ForeignFiles \ {NoFile}

FrameOps == {"create_new", "update_backup", "try_compress", "try_decompress"}

\* C14: create_new, update_backup, try_compress and try_decompress create
\* and modify no file: whatever they return, the store directory and the
\* source files are after the call what they were before it.
NothingWrittenBeforeWrite ==
    [][ last'.op \in FrameOps => (store' = store /\ fs' = fs) ]_vars

\* an attempt failed while the store held the container written before
FailedAttemptKeptStore ==
    /\ last.op \in FrameOps
    /\ last.result # "ok"
    /\ store[BackupName].exists
    /\ Recovered(store[BackupName]).result = "ok"


\* C15: BackupManager::new returns an error, and no manager, when the
\* directory cannot be listed, when an entry cannot be opened, and when an
\* entry is shorter than its header and declared metadata or its header or
\* metadata cannot be parsed; a manager it returns has skipped no entry.
ScanFailsOnBadEntry ==
    [][ last'.op = "BackupManager::new" =>
          /\ ( \/ last'.input # ""
               \/ \E n \in Entries(store') :
                      ~extract_header_and_meta(store'[n]).ok )
             => (last'.result = "err" /\ manager' = manager)
          /\ last'.result = "ok" =>
                 /\ manager'.some
                 /\ \A n \in Entries(store') :
                        \E i \in DOMAIN manager'.file_info :
                            manager'.file_info[i].backup_path = n ]_vars


\* C22: the bytes try_compress gives to the compressor are the header's
\* bytes, then the encoded metadata, then the file bytes, and they are
\* size_of(FileHeader) + header.meta_size + header.file_size bytes in all.
StreamIsHeaderMetaFile ==
    (last.op = "try_compress" /\ last.result = "ok") =>
        LET expected == bytes_of(original.header)
                            \o to_vec(original.meta).val
                            \o original.file_bytes
        IN  /\ brotli_decompress(compressed.bytes) = Ok(expected)
            /\ Len(expected) = size_of_FileHeader + original.header.meta_size
                                   + original.header.file_size

\* a container of an updated, non-empty file was compressed
UpdatedFileCompressed ==
    /\ last.op = "try_compress" /\ last.result = "ok"
    /\ original.file_bytes # <<>>
    /\ original.meta.version = u32_from(2)

\* C23: when another process changes the length of the source file between
\* the metadata read and the byte read of create_new or update_backup, the
\* call panics and the container the caller holds is as before; a container
\* these calls return holds as many file bytes as its snapshot records.
ResizedSourcePanics ==
    [][ last'.op \in {"create_new", "update_backup"} =>
          /\ \A p \in SourcePaths :
                 ( /\ fs[p].exists /\ fs'[p].exists
                   /\ Len(fs[p].bytes) # Len(fs'[p].bytes) )
                 => (last'.result = "panic" /\ backup' = backup)
          /\ last'.result = "ok" =>
                 Len(backup'.file_bytes) = backup'.meta.fs_meta.size ]_vars

\* update_backup panicked on a container with a valid version: the file was
\* not as long when it was read as its metadata had said
UpdatePanickedOnResize ==
    /\ last.op = "update_backup"
    /\ last.result = "panic"
    /\ backup.some
    /\ is_valid(backup.meta.version)

\* C26: when update_backup returns an error the container is as it was
\* before the call: header, metadata and file bytes.
FailedUpdateKeepsContainer ==
    [][ (last'.op = "update_backup" /\ last'.result = "err") =>
            backup' = backup ]_vars

\* update_backup failed on a container that an earlier update had brought to
\* version 2, its source file being gone
UpdateFailedOnMissingFile ==
    /\ last.op = "update_backup" /\ last.result = "err"
    /\ backup.some
    /\ backup.meta.version = u32_from(2)
    /\ ~fs[backup.meta.path].exists

\* C27: an update_backup that succeeds leaves the path and the time the backup
\* was created as they were; the version, the filesystem snapshot, the
\* header and the file bytes are what it may change.
UpdateKeepsPathAndCreated ==
    [][ (last'.op = "update_backup" /\ last'.result = "ok") =>
          /\ backup'.meta.path = backup.meta.path
          /\ backup'.meta.backup_created = backup.meta.backup_created ]_vars

\* a container made at time 300 was updated twice, last from a file
\* modified at time 100
UpdatedTwiceKeepsStamp ==
    /\ last.op = "update_backup" /\ last.result = "ok"
    /\ backup.meta.version = u32_from(3)
    /\ backup.meta.backup_created = 300
    /\ backup.meta.fs_meta.modified = 100

\* C28: a container that try_decompress returns carries a valid version
\* (1 or more), so that a later update_backup on it cannot meet the
\* invalid-version panic.
DecompressedVersionValid ==
    (last.op = "try_decompress" /\ last.result = "ok") =>
        is_valid(backup.meta.version)

----------------------------------------------------------------------------
(* Properties of the header parsers (SpecHeader)                           *)

\* C16: try_from_bytes on a slice of at least size_of(FileHeader) bytes
\* returns the header whose byte image is the first size_of(FileHeader) bytes
\* and, untouched, the bytes after them, as many as the slice is longer than
\* a header; on a shorter slice it returns an error.
PullsHeaderAndRest ==
    last.op = "try_from_bytes" =>
        IF Len(given) >= size_of_FileHeader
        THEN /\ parsed.ok
             /\ bytes_of(parsed.val[1]) = SubSeq(given, 1, size_of_FileHeader)
             /\ parsed.val[2] = SubSeq(given, size_of_FileHeader + 1, Len(given))
             /\ Len(parsed.val[2]) = Len(given) - size_of_FileHeader
        ELSE ~parsed.ok

\* a header with a four-byte size was pulled off a slice with two bytes more
PulledWithRest ==
    /\ last.op = "try_from_bytes"
    /\ parsed.ok
    /\ parsed.val[1].meta_size = 2147483647
    /\ parsed.val[2] = <<7, 9>>

\* C17: try_from_bytes_exact returns an error for a slice that is shorter or
\* longer than size_of(FileHeader); for a slice of that length it returns the
\* header whose byte image is the slice, and so the header h for bytes_of(h).
ExactOrErr ==
    last.op = "try_from_bytes_exact" =>
        /\ Len(given) # size_of_FileHeader => ~parsed.ok
        /\ Len(given) = size_of_FileHeader =>
               parsed.ok /\ bytes_of(parsed.val) = given
        /\ imaged.some => parsed = Ok(imaged.val)

\* the byte image of a header with a four-byte size was read back
ImageReadBack ==
    /\ last.op = "try_from_bytes_exact"
    /\ imaged.some
    /\ imaged.val.meta_size = 2147483647
    /\ parsed.ok


----------------------------------------------------------------------------
(* Properties of the FileMeta record (SpecMeta)                            *)

\* C18: update_from_metadata replaces the filesystem snapshot of the record
\* by the one made from the metadata it is given, and leaves the version,
\* the path and the time the backup was created as they were.
RefreshKeepsTheRest ==
    [][ last'.op = "update_from_metadata" =>
          /\ file_meta'.fs_meta = from_metadata(last'.input)
          /\ file_meta'.version = file_meta.version
          /\ file_meta'.path = file_meta.path
          /\ file_meta'.backup_created = file_meta.backup_created ]_vars

\* a record that was bumped to version 128 and re-stamped was refreshed from
\* the metadata of a file that never reports when it was created
RefreshedAfterBump ==
    /\ last.op = "update_from_metadata"
    /\ file_meta.version = u32_from(128)
    /\ file_meta.backup_created \in LaterSamples
    /\ file_meta.fs_meta.created = None
    /\ file_meta.fs_meta.size = MaxFileLen


----------------------------------------------------------------------------
(* Properties of the ID allocator (SpecAllocator)                          *)

\* C20: whatever the threads' calls of alloc and free and their order, alloc
\* returns; the ID it returns lies in min..max and is not held by an
\* allocation that was not freed; and it returns None exactly when every ID
\* of min..max is held.
AllocHandsOutFreeIds ==
    [][ last'.op = "IdAllocator::alloc" =>
          /\ last'.result = "ok"
          /\ last'.input.some =>
                 /\ last'.input.id \in ida_min..ida.max
                 /\ Holds(held, last'.input.id) = 0
          /\ (~last'.input.some) <=>
                 (\A id \in ida_min..ida.max : Holds(held, id) > 0) ]_vars


\* C29: an allocator whose max is the largest value of the ID type hands out
\* every ID up to max, the last one included, and once max has been handed
\* out an alloc that finds the free queue empty returns None.
TopOfTypeRunsOut ==
    [][ ( /\ last'.op = "IdAllocator::alloc"
          /\ ida.max = U8_MAX
          /\ ida.free = <<>> )
        => /\ last'.result = "ok"
           /\ IF U8_MAX \in issued
              THEN last'.input = NoId
              ELSE last'.input = SomeId(ida.next) ]_vars

----------------------------------------------------------------------------
(* Properties of PathExt::clean (SpecPath)                                 *)

\* Go's path.Clean by its rules: the elements of the path are what is
\* between the slashes, the empty ones and the "." left out; an inner ".."
\* goes with the element before it that is not a ".."; a ".." that then
\* begins a rooted path goes; the empty path is ".".
GoElements(s) ==
    LET starts == InOrder({i \in SegmentStarts(s) : SegmentAt(s, i) # <<DOT>>})
    IN  [k \in DOMAIN starts |-> SegmentAt(s, starts[k])]
RECURSIVE GoEliminated(_)
GoEliminated(elems) ==
    LET inner == {i \in 1..(Len(elems) - 1) :
                      elems[i] # <<DOT, DOT>> /\ elems[i + 1] = <<DOT, DOT>>}
    IN  IF inner = {} THEN elems
        ELSE LET i == CHOOSE i \in inner : TRUE
             IN  GoEliminated(SubSeq(elems, 1, i - 1)
                                  \o SubSeq(elems, i + 2, Len(elems)))
RECURSIVE GoJoined(_)
GoJoined(elems) ==
    IF elems = <<>> THEN <<>>
    ELSE IF Len(elems) = 1 THEN elems[1]
    ELSE elems[1] \o <<SEP>> \o GoJoined(Tail(elems))
GoClean(s) ==
    LET left == GoEliminated(GoElements(s))
        kept == IF has_root(s)
                THEN SelectSeq(left, LAMBDA e : e # <<DOT, DOT>>)
                ELSE left
        out == (IF has_root(s) THEN <<SEP>> ELSE <<>>) \o GoJoined(kept)
    IN  IF out = <<>> THEN <<DOT>> ELSE out

\* C21: the path clean returns is "." or has no "." component; none of its
\* ".." components follows a normal component or the root; and it is the
\* path Go's path.Clean gives for the same input.
CleanIsLexicallyClean ==
    cleaned.some =>
        LET out == components(cleaned.path)
        IN  /\ cleaned.path = <<DOT>> \/ \A i \in DOMAIN out : out[i] # CurDir
            /\ \A i \in DOMAIN out :
                   out[i] = ParentDir => i = 1 \/ out[i - 1] = ParentDir
            /\ cleaned.path = GoClean(path_in)

\* a path that climbs out of its two directories twice came out as "../../e"
CleanedClimb ==
    /\ cleaned.some
    /\ Len(path_in) > 2 * MaxPathLen
    /\ cleaned.path = <<DOT, DOT, SEP, DOT, DOT, SEP, "e">>

\* C25: while the free queue is not empty alloc returns the ID at its front,
\* an ID that was returned before, and leaves `next` alone; free puts its ID
\* at the back: the freed IDs come back in the order they were freed.  An ID
\* that was never returned before is returned only with an empty queue.
FreedFirstReusedFirst ==
    [][ /\ (last'.op = "IdAllocator::alloc" /\ last'.result = "ok") =>
               /\ ida.free # <<>> =>
                      /\ last'.input = SomeId(Head(ida.free))
                      /\ Head(ida.free) \in issued
                      /\ ida'.free = Tail(ida.free)
                      /\ ida'.next = ida.next
               /\ (last'.input.some /\ last'.input.id \notin issued) =>
                      ida.free = <<>> /\ last'.input.id = ida.next
        /\ last'.op = "IdAllocator::free" =>
               ida'.free = Append(ida.free, last'.input.id) ]_vars

\* 3, 4 and 5 were allocated, 5 was freed before 3, and alloc returned 5
ReusedInFreeOrder ==
    /\ last.op = "IdAllocator::alloc"
    /\ last.input = SomeId(5)
    /\ ida.free = <<3>>
    /\ ida.next = 6

----------------------------------------------------------------------------
(* Properties of NotifyWatcher (SpecWatcher)                               *)

\* the paths of a list
PathsOf(files) == {files[i] : i \in DOMAIN files}

\* C30: after every start, stop and update_watched_files, the failed ones
\* included, is_watching is true only with every path of watched_files
\* registered with the inner watcher and false only with none of them
\* registered; an update_watched_files that succeeds leaves is_watching as
\* it was.
WatchingMeansRegistered ==
    [][ last'.op \in {"start", "stop", "update_watched_files"} =>
          /\ nw'.is_watching => PathsOf(nw'.watched_files) \subseteq registered'
          /\ ~nw'.is_watching =>
                 PathsOf(nw'.watched_files) \cap registered' = {}
          /\ (last'.op = "update_watched_files" /\ last'.result = "ok") =>
                 nw'.is_watching = nw.is_watching ]_vars

=============================================================================
